---- MODULE Spec2Model ----
(***************************************************************************)
(* A model of the write-ahead log of package wal: the log writer and the   *)
(* log reader of wal.go, the recovery helper of recover.go and the paired  *)
(* reader/writer of pair.go.  A log is a directory of numbered segment     *)
(* files; a segment file is modelled as the sequence of the frames it      *)
(* holds, each with its on-disk byte length, so that positions are byte    *)
(* offsets as in the program.                                              *)
(*                                                                         *)
(* Spec      one writer session on a fresh directory (Write, WriteTag,     *)
(*           Close) followed by one reader session (NewReader, SeekTag,    *)
(*           BeginRecovery, Next).                                         *)
(* ReopenSpec writer sessions one after another on the same directory,     *)
(*           each ended by Close or by a crash (also in the middle of a    *)
(*           Write), then a reader that iterates or Seeks to a Position    *)
(*           a writer reported.                                            *)
(* SegSpec   one segment file: segment writers opened one after another    *)
(*           (Write, WriteTag, Truncate, Close, crash) and a segment       *)
(*           reader.                                                       *)
(* PairSpec  NewPair: a producer goroutine and a consumer goroutine that   *)
(*           share the pair's mutex, condition and generation counter.     *)
(* PairFair  PairSpec with weak fairness of both goroutines.               *)
(* PairOldSpec, PairOldFair  the same pair opened on the directory an      *)
(*           earlier writer left, where a rotating Write comes to fail.    *)
(* CodecSpec one segment file as bytes: records are encoded, appended and  *)
(*           decoded again (CRC-32, uvarint, snappy).                      *)
(* DirSpec   a directory by file names: files are created and removed,     *)
(*           and NewReader / Reset list it with rangeSegments.             *)
(* OptSpec   WriteOptions.CalculateFromTotal on a range of options and     *)
(*           totals.                                                       *)
(* TagSpec   WriteTag step by step, each file operation failing or not.    *)
(* HandleSpec the writer of Spec and a log reader (NewReader, Reset,       *)
(*           SeekTag, Seek, Next, Close) with the segment files the reader *)
(*           has opened and not closed.                                    *)
(***************************************************************************)
EXTENDS Integers, Sequences, FiniteSets, TLC

VARIABLES
    files,      \* the directory: segment index -> sequence of frames
    tagsFile,   \* content of <root>/tags: whether it holds a document, and its map
    w,          \* WALWriter: open, first, index, size, off, clean, opts, cache, cacheOff
    hist,       \* history: every frame a Write/WriteTag that returned nil appended
    werr,       \* history: some Write returned an error
    pruned,     \* history: some segment file was removed
    nops,       \* number of writer operations performed
    tagPos,     \* history: tag -> what Pos() reported right before its last WriteTag
    lastOp,     \* history: the most recent writer operation and the state it found
    posLog,     \* history: every value Pos() had between calls, and what was written then
    cap,        \* the member of posLog the reader was given to Seek to
    nsess,      \* number of writers opened on the directory so far
    prevEnd,    \* history: how the writer before the current one ended
    crashed,    \* history: some writer ended without Close
    rd,         \* WALReader: open, first, last, index, seg, lastSegPos, err
    mode,       \* how the reader session was started: none, iter, seektag, recovery, seek, ...
    seekTag,    \* the tag given to SeekTag / BeginRecovery
    seekRes,    \* the Position SeekTag returned
    out,        \* values for which Next returned true, in order
    lastNext,   \* result of the most recent Next: none, true, false
    wpc,        \* pair: the producer's position
    wreq,       \* pair: the payload length / tag of the producer's call in progress
    rpc,        \* pair: the consumer's position
    plock,      \* pair: holder of PairedWriter.lock: none, w, r
    pwgen,      \* PairedWriter.gen
    rgen,       \* PairedReader.gen
    bn,         \* history of the BlockingNext call in progress / last returned
    used        \* history: which pair operations have been called

vars == <<files, tagsFile, w, hist, werr, pruned, nops, tagPos, lastOp, posLog, cap,
          nsess, prevEnd, crashed, rd, mode, seekTag,
          seekRes, out, lastNext, wpc, wreq, rpc, plock, pwgen, rgen, bn, used>>

auxVars  == <<tagPos, lastOp, posLog, cap, nsess, prevEnd, crashed>>
logVars  == <<files, tagsFile, w, hist, werr, pruned, nops, auxVars>>
readVars == <<rd, mode, seekTag, seekRes, out, lastNext>>
pairVars == <<wpc, wreq, rpc, plock, pwgen, rgen, bn, used>>

(***************************************************************************)
(* Bounds of the model.                                                    *)
(***************************************************************************)
MaxOps == 4         \* writer operations in a session of Spec
MaxPairOps == 3     \* producer operations in PairSpec
MaxReopenOps == 3   \* writer operations, over all the writers, in ReopenSpec
MaxSessions == 2    \* writers opened one after the other in ReopenSpec
MaxSegSessions == 3 \* segment writers opened one after the other in SegSpec
MaxSegOps == 3      \* Write, WriteTag and Truncate calls in SegSpec
MaxCodecOps == 2    \* records written in CodecSpec
LongLen == 130      \* length of the long payload of CodecSpec
MaxDirOps == 2      \* files created and removed in DirSpec
MaxCalcOps == 2     \* CalculateFromTotal calls in OptSpec
MaxTagOps == 3      \* Write and WriteTag calls in TagSpec
MaxHandles == 2     \* open handles from which on HandleSpec calls no Reset, Seek or SeekTag
SmallTotal == 7     \* a total far below one segment, in OptSpec
ManySegments == 100 \* segments of the greatest total of OptSpec

(***************************************************************************)
(* Program constants.                                                      *)
(***************************************************************************)
MaxSegmentSize == 16 * (1024 * 1024)
averageOverhead == 4 + 1 + 2
DefaultWriteOptions == [SegmentSize |-> MaxSegmentSize, MaxSegments |-> 10]
closingMagicLen == 34

\* The WriteOptions a writer of Spec is opened with: the tests' small
\* segments with several retention caps, a segment size below any record
\* (every Write rotates), and the defaults.
OptionsSet ==
    {[SegmentSize |-> 0, MaxSegments |-> 10],
     [SegmentSize |-> 20, MaxSegments |-> 1],
     [SegmentSize |-> 20, MaxSegments |-> 2],
     [SegmentSize |-> 20, MaxSegments |-> 10],
     DefaultWriteOptions}

\* The options of the logs that are re-opened in ReopenSpec.
ReopenOptions ==
    {[SegmentSize |-> 20, MaxSegments |-> 1],
     [SegmentSize |-> 20, MaxSegments |-> 2],
     [SegmentSize |-> 50, MaxSegments |-> 10],
     [SegmentSize |-> 70, MaxSegments |-> 10]}

\* Payload lengths and tags written in ReopenSpec: a record shorter and one
\* longer than the closing magic.
ReopenLens == {2, 30}
ReopenTags == {"A"}

\* Payloads written in SegSpec: a short one, and the one that is the
\* closingMagicLen bytes of the closing magic themselves.
SegLens == {2, closingMagicLen}

\* Payload lengths of the data records written, and the tags.
DataLens == {2, 12}
PairLens == {2, MaxSegmentSize}
Tags == {"A", "B"}
TagLen(t) == 1

NoSeg == [idx |-> -1, pos |-> -1, err |-> "closed"]
NonePos == [Segment |-> -1, Offset |-> -1]

(***************************************************************************)
(* The framed record codec: 4 bytes of CRC, the type byte, the uvarint     *)
(* length of the compressed payload, the compressed payload.  Payload      *)
(* bytes are taken to be incompressible, so snappy emits its uvarint       *)
(* preamble and literal elements (one per 64 KiB block).                   *)
(***************************************************************************)
UvarintLen(n) ==
    IF n < 128 THEN 1
    ELSE IF n < 16384 THEN 2
    ELSE IF n < 2097152 THEN 3
    ELSE IF n < 268435456 THEN 4
    ELSE 5

SnappyLen(n) ==
    UvarintLen(n) + n +
    (IF n = 0 THEN 0
     ELSE IF n <= 60 THEN 1
     ELSE IF n <= 256 THEN 2
     ELSE 3 * ((n + 65535) \div 65536))

FrameLen(n) == 5 + UvarintLen(SnappyLen(n)) + SnappyLen(n)

DataFrame(id, n) == [typ |-> "d", id |-> id, tag |-> "", len |-> n]
TagFrame(t)      == [typ |-> "t", id |-> 0, tag |-> t, len |-> TagLen(t)]
\* A frame whose header (CRC, type, length) is on disk and whose payload is not yet.
TornFrame(f)     == [f EXCEPT !.typ = "torn"]
Magic            == [typ |-> "magic", id |-> 0, tag |-> "", len |-> 0]

\* On-disk byte length of one element of a segment file.
DiskLen(f) ==
    IF f.typ = "magic" THEN closingMagicLen
    ELSE IF f.typ = "junk" THEN f.len
    ELSE IF f.typ = "torn" THEN 5 + UvarintLen(SnappyLen(f.len))
    ELSE FrameLen(f.len)

\* Byte length of the first k elements of a segment file, and of all of it.
RECURSIVE BytesTo(_, _)
BytesTo(s, k) == IF k <= 0 THEN 0 ELSE DiskLen(s[k]) + BytesTo(s, k - 1)

BytesOf(s) == BytesTo(s, Len(s))

Min(S) == CHOOSE x \in S : \A y \in S : x <= y
Max(S) == CHOOSE x \in S : \A y \in S : x >= y

(***************************************************************************)
(* The codec at the level of bytes.  A byte is a number in 0..255, a       *)
(* payload or a file a sequence of bytes.  A 32-bit CRC is the pair        *)
(* <<high half, low half>> of its 16-bit halves.                           *)
(***************************************************************************)
TypeData == 100     \* 'd'
TypeTag  == 116     \* 't'

\* Bitwise exclusive or of two naturals.
RECURSIVE Xor(_, _)
Xor(a, b) ==
    IF a = 0 THEN b
    ELSE IF b = 0 THEN a
    ELSE ((a + b) % 2) + 2 * Xor(a \div 2, b \div 2)

\* One bit of the reflected CRC-32 division: shift right by one, and when a
\* one is shifted out, xor with the IEEE polynomial 0xEDB88320.
CrcShift(c) ==
    LET hi == c[1] \div 2
        lo == (c[2] \div 2) + 32768 * (c[1] % 2)
    IN  IF c[2] % 2 = 1 THEN <<Xor(hi, 60856), Xor(lo, 33568)>> ELSE <<hi, lo>>

\* n such steps.  (Here and below a value is bound as the element of a
\* singleton set, which computes it once, before the next step.)
RECURSIVE CrcBits(_, _)
CrcBits(c, n) ==
    IF n = 0 THEN c
    ELSE CHOOSE r \in {CrcBits(v, n - 1) : v \in {CrcShift(c)}} : TRUE

\* hash.Hash32.Write of the bytes bs[i..j] into the running register c: byte
\* after byte, the range being halved to keep the evaluation shallow.
RECURSIVE CrcWrite(_, _, _, _)
CrcWrite(c, bs, i, j) ==
    IF i > j THEN c
    ELSE IF i = j THEN CrcBits(<<c[1], Xor(c[2], bs[i])>>, 8)
    ELSE CHOOSE r \in {CrcWrite(v, bs, ((i + j) \div 2) + 1, j)
                       : v \in {CrcWrite(c, bs, i, (i + j) \div 2)}} : TRUE

\* crc32.ChecksumIEEE(bs): Reset, Write, Sum32.
Crc32(bs) ==
    CHOOSE r \in {<<Xor(c[1], 65535), Xor(c[2], 65535)>>
                  : c \in {CrcWrite(<<65535, 65535>>, bs, 1, Len(bs))}} : TRUE

\* binary.BigEndian.PutUint32 and Uint32.
PutUint32(c) == <<c[1] \div 256, c[1] % 256, c[2] \div 256, c[2] % 256>>
Uint32(b) == <<b[1] * 256 + b[2], b[3] * 256 + b[4]>>

\* binary.PutUvarint(buf, n): the bytes written.
RECURSIVE PutUvarint(_)
PutUvarint(n) ==
    IF n < 128 THEN <<n>> ELSE <<(n % 128) + 128>> \o PutUvarint(n \div 128)

\* binary.ReadUvarint from bs at 1-based index i, x and mul being the value
\* and the weight accumulated so far: the value and the index after it.
RECURSIVE ReadUvarint(_, _, _, _)
ReadUvarint(bs, i, x, mul) ==
    IF i > Len(bs) THEN [err |-> "UnexpectedEOF", val |-> 0, next |-> i]
    ELSE IF bs[i] < 128 THEN [err |-> "nil", val |-> x + bs[i] * mul, next |-> i + 1]
    ELSE ReadUvarint(bs, i + 1, x + (bs[i] - 128) * mul, mul * 128)

\* snappy's literal element for the bytes lit.
EmitLiteral(lit) ==
    LET n == Len(lit) - 1
    IN  (IF n < 60 THEN <<n * 4>>
         ELSE IF n < 256 THEN <<240, n>>
         ELSE <<244, n % 256, n \div 256>>) \o lit

\* snappy.Encode(d) for a d of less than 64 KiB without a repeated run of
\* four bytes: the uvarint of the decoded length, then one literal element.
SnappyEncode(d) ==
    PutUvarint(Len(d)) \o (IF d = <<>> THEN <<>> ELSE EmitLiteral(d))

\* The elements of a snappy block c from index i on, appended to dst.  (A
\* copy element, which SnappyEncode never emits, is taken for corrupt.)
RECURSIVE SnappyElements(_, _, _)
SnappyElements(c, i, dst) ==
    IF i > Len(c) THEN [err |-> "nil", data |-> dst]
    ELSE IF c[i] % 4 # 0 THEN [err |-> "ErrCorrupt", data |-> <<>>]
    ELSE LET x     == c[i] \div 4
             extra == IF x < 60 THEN 0 ELSE x - 59
             n     == IF x < 60 THEN x + 1
                      ELSE IF i + extra > Len(c) THEN 0
                      ELSE IF extra = 1 THEN c[i + 1] + 1
                      ELSE IF extra = 2 THEN c[i + 1] + 256 * c[i + 2] + 1
                      ELSE 0
             from  == i + 1 + extra
         IN  IF n = 0 \/ from + n - 1 > Len(c)
             THEN [err |-> "ErrCorrupt", data |-> <<>>]
             ELSE SnappyElements(c, from + n, dst \o SubSeq(c, from, from + n - 1))

\* snappy.Decode(c)
SnappyDecode(c) ==
    LET hdr == ReadUvarint(c, 1, 0, 1)
        res == SnappyElements(c, hdr.next, <<>>)
    IN  IF hdr.err # "nil" THEN [err |-> "ErrCorrupt", data |-> <<>>]
        ELSE IF res.err # "nil" \/ Len(res.data) # hdr.val
        THEN [err |-> "ErrCorrupt", data |-> <<>>]
        ELSE res

\* An encode whose CRC covers the type byte too.
Encode_CrcCoversType(typ, d) ==
    LET comp == SnappyEncode(d)
        lenb == PutUvarint(Len(comp))
    IN  PutUint32(Crc32(<<typ>> \o lenb \o comp)) \o <<typ>> \o lenb \o comp

\* encode(type, payload): the CRC of the length bytes and the compressed
\* payload, the type byte, the length bytes, the compressed payload.
Encode(typ, d) ==
    LET comp == SnappyEncode(d)
        lenb == PutUvarint(Len(comp))
    IN  PutUint32(Crc32(lenb \o comp)) \o <<typ>> \o lenb \o comp

\* decode(reader), the reader standing at byte offset pos of bs.
Decode(bs, pos) ==
    LET hdr  == ReadUvarint(bs, pos + 6, 0, 1)
        last == hdr.next - 1 + hdr.val
        fed  == SubSeq(bs, pos + 6, last)
    IN  IF Len(bs) < pos + 5
        THEN [err |-> "EOF", typ |-> 0, raw |-> <<>>, crc |-> <<0, 0>>, consumed |-> 0]
        ELSE IF hdr.err # "nil" \/ last > Len(bs)
        THEN [err |-> "UnexpectedEOF", typ |-> 0, raw |-> <<>>, crc |-> <<0, 0>>,
              consumed |-> 0]
        ELSE IF Crc32(fed) # Uint32(SubSeq(bs, pos + 1, pos + 4))
        THEN [err |-> "CorruptCRC", typ |-> 0, raw |-> <<>>, crc |-> <<0, 0>>,
              consumed |-> 0]
        ELSE [err |-> "nil", typ |-> bs[pos + 5],
              raw |-> SubSeq(bs, hdr.next, last),
              crc |-> Uint32(SubSeq(bs, pos + 1, pos + 4)),
              consumed |-> last - pos]

\* SegmentReader.Next at byte offset pos of bs: tag records are skipped, a
\* data record is snappy-decoded and becomes the current value.
RECURSIVE ByteNext(_, _)
ByteNext(bs, pos) ==
    LET rec == Decode(bs, pos)
        val == SnappyDecode(rec.raw)
    IN  IF rec.err # "nil"
        THEN [ok |-> FALSE, err |-> rec.err, pos |-> pos, typ |-> 0, data |-> <<>>,
              crc |-> <<0, 0>>]
        ELSE IF rec.typ = TypeTag THEN ByteNext(bs, pos + rec.consumed)
        ELSE IF val.err # "nil"
        THEN [ok |-> FALSE, err |-> val.err, pos |-> pos + rec.consumed, typ |-> 0,
              data |-> <<>>, crc |-> <<0, 0>>]
        ELSE [ok |-> TRUE, err |-> "nil", pos |-> pos + rec.consumed,
              typ |-> rec.typ, data |-> val.data, crc |-> rec.crc]

(***************************************************************************)
(* Segment writer.  The file is opened read/write/create, without          *)
(* O_APPEND: a write goes to the handle's file offset, which the open      *)
(* leaves before the closing magic of a clean file, at 0 in a file shorter *)
(* than the magic, and at the end of any other file.                       *)
(***************************************************************************)
\* n bytes that are no frame: zeros of a hole, or what is left of a frame or
\* of the closing magic that was partly overwritten or cut.
Junk(n) == [typ |-> "junk", id |-> 0, tag |-> "", len |-> n]

\* The number of whole elements of s that lie before byte offset off.
WholeBefore(s, off) == Max({k \in 0..Len(s) : BytesTo(s, k) <= off})

\* The file after f is written at byte offset off.  (The file, the offset
\* and k are bound as elements of singleton sets: each is computed once.)
WriteAt(s, off, f) ==
    CHOOSE r \in
        { SubSeq(t, 1, k)
          \o (IF o > BytesTo(t, k) THEN <<Junk(o - BytesTo(t, k))>> ELSE <<>>)
          \o <<f>>
          \o (IF BytesOf(t) > o + DiskLen(f)
              THEN <<Junk(BytesOf(t) - (o + DiskLen(f)))>> ELSE <<>>)
          : t \in {s}, o \in {off}, k \in {WholeBefore(s, off)} } : TRUE

\* The last closingMagicLen bytes of the file are the closing magic: the
\* trailer itself, or a data record whose payload is those very bytes.
EndsWithMagic(s) ==
    /\ s # <<>>
    /\ \/ s[Len(s)].typ = "magic"
       \/ s[Len(s)].typ = "d" /\ s[Len(s)].len = closingMagicLen

\* NewSegmentWriter on a file holding s: calculateClean, and the logical
\* size, which starts at the file's size.
SegOpen(s) ==
    [size  |-> BytesOf(s),
     clean |-> EndsWithMagic(s),
     off   |-> IF EndsWithMagic(s) THEN BytesOf(s) - closingMagicLen
               ELSE IF BytesOf(s) < closingMagicLen THEN 0
               ELSE BytesOf(s)]

\* NewSegmentWriter creates the file when there is none.
SegOpenForAppend(fs, i) ==
    IF i \in DOMAIN fs THEN fs ELSE fs @@ (i :> <<>>)

\* SegmentWriter.Write / WriteTag of frame f by a handle whose offset is off.
SegAppend(fs, i, off, f) == [fs EXCEPT ![i] = WriteAt(@, off, f)]

\* A Close that leaves the file without the closing magic.
SegClose_NoMagic(fs, i, off) == fs

\* SegmentWriter.Close: append the closing magic.
SegClose(fs, i, off) == [fs EXCEPT ![i] = WriteAt(@, off, Magic)]

\* SegmentWriter.Truncate(pos): the file is cut, or extended with zeros, to
\* pos bytes; the handle's offset stays where it was.
SegTruncate(s, pos) ==
    LET k   == WholeBefore(s, pos)
        gap == pos - BytesTo(s, k)
    IN  SubSeq(s, 1, k) \o (IF gap > 0 THEN <<Junk(gap)>> ELSE <<>>)

(***************************************************************************)
(* Log writer (wal.go).  The operators take and return the writer record   *)
(* and the directory; err is the error the Go function returns.            *)
(***************************************************************************)
\* Length of the decimal representation encoding/json writes for n.
RECURSIVE Digits(_)
Digits(n) == IF n < 10 THEN 1 ELSE 1 + Digits(n \div 10)

\* Length of base64.URLEncoding of a tag (padded).
Base64Len(t) == 4 * ((TagLen(t) + 2) \div 3)

\* Length of one member of the "tags" object: "<key>":{"segment":S,"offset":O}
EntryLen(t, p) ==
    2 + Base64Len(t) + 1 + 11 + Digits(p.Segment) + 10 + Digits(p.Offset) + 1

RECURSIVE EntriesLen(_, _)
EntriesLen(S, cache) ==
    IF S = {} THEN 0
    ELSE LET t == CHOOSE u \in S : TRUE
         IN  EntryLen(t, cache[t]) + EntriesLen(S \ {t}, cache)

\* Bytes cacheEnc.Encode(&wal.cache) writes: {"tags":{...}} and a newline.
DocLen(cache) ==
    9 + EntriesLen(DOMAIN cache, cache)
      + (IF DOMAIN cache = {} THEN 0 ELSE Cardinality(DOMAIN cache) - 1)
      + 2 + 1

\* Go's integer division, which truncates toward zero.
GoDiv(a, b) ==
    IF (a >= 0) = (b > 0) THEN (IF a >= 0 THEN a ELSE 0 - a) \div (IF b > 0 THEN b ELSE 0 - b)
    ELSE 0 - ((IF a >= 0 THEN a ELSE 0 - a) \div (IF b > 0 THEN b ELSE 0 - b))

\* A CalculateFromTotal that rounds the number of segments down.
CalculateFromTotal_RoundsDown(wo, total) ==
    IF wo.MaxSegments = 0
    THEN IF total < MaxSegmentSize
         THEN [wo EXCEPT !.MaxSegments = 1, !.SegmentSize = total]
         ELSE [wo EXCEPT !.SegmentSize = MaxSegmentSize,
                         !.MaxSegments = GoDiv(total, MaxSegmentSize)]
    ELSE [wo EXCEPT !.SegmentSize = GoDiv(total, wo.MaxSegments)]

\* wo.CalculateFromTotal(total)
CalculateFromTotal(wo, total) ==
    IF wo.MaxSegments = 0
    THEN IF total < MaxSegmentSize
         THEN [wo EXCEPT !.MaxSegments = 1, !.SegmentSize = total]
         ELSE [wo EXCEPT !.SegmentSize = MaxSegmentSize,
                         !.MaxSegments = GoDiv(total, MaxSegmentSize)
                                         + (IF total % MaxSegmentSize # 0 THEN 1 ELSE 0)]
    ELSE [wo EXCEPT !.SegmentSize = GoDiv(total, wo.MaxSegments)]

\* The tags file os.Create leaves: empty.  zeros is the number of NUL bytes
\* the file starts with, doc whether a JSON document follows them.
EmptyTagsFile == [doc |-> FALSE, zeros |-> 0, tags |-> [t \in {} |-> NonePos]]

\* A NewWithOptions that opens the lowest segment of the directory.
NewWithOptions_OpensFirst(dir, opts) ==
    LET first == IF DOMAIN dir = {} THEN 0 ELSE Min(DOMAIN dir)
        fs    == SegOpenForAppend(dir, first)
        seg   == SegOpen(fs[first])
    IN  [w |-> [open |-> TRUE, first |-> first, index |-> first,
                size |-> seg.size, off |-> seg.off, clean |-> seg.clean,
                opts |-> opts,
                cache |-> [t \in {} |-> NonePos], cacheOff |-> 0],
         files |-> fs]

\* NewWithOptions on a directory dir: continue in the highest segment.
NewWithOptions(dir, opts) ==
    LET last  == IF DOMAIN dir = {} THEN 0 ELSE Max(DOMAIN dir)
        first == IF DOMAIN dir = {} THEN 0 ELSE Min(DOMAIN dir)
        fs    == SegOpenForAppend(dir, last)
        seg   == SegOpen(fs[last])
    IN  [w |-> [open |-> TRUE, first |-> first, index |-> last,
                size |-> seg.size, off |-> seg.off, clean |-> seg.clean,
                opts |-> opts,
                cache |-> [t \in {} |-> NonePos], cacheOff |-> 0],
         files |-> fs]

\* A rotation that leaves an index out.
rotateSegment_SkipsIndex(wr, fs) ==
    LET idx == wr.index + 2 IN
    CHOOSE res \in
      { LET seg == SegOpen(opened[idx])
        IN  [w |-> [wr EXCEPT !.index = idx, !.size = seg.size, !.off = seg.off,
                              !.clean = seg.clean],
             files |-> opened, err |-> FALSE]
        : opened \in {SegOpenForAppend(SegClose(fs, wr.index, wr.off), idx)} } : TRUE

\* (opened, the directory with the old segment closed and the new one
\* created, is bound as the element of a singleton set: it is computed once.)
rotateSegment(wr, fs) ==
    LET idx == wr.index + 1 IN
    CHOOSE res \in
      { LET seg == SegOpen(opened[idx])
        IN  [w |-> [wr EXCEPT !.index = idx, !.size = seg.size, !.off = seg.off,
                              !.clean = seg.clean],
             files |-> opened, err |-> FALSE]
        : opened \in {SegOpenForAppend(SegClose(fs, wr.index, wr.off), idx)} } : TRUE

\* The loop of pruneSegments: remove i, i-1, ..., first; os.Remove of a file
\* that does not exist is an error, which ends the loop.
RECURSIVE PruneLoop(_, _, _)
PruneLoop(fs, i, first) ==
    IF i < first THEN [files |-> fs, err |-> FALSE]
    ELSE IF i \notin DOMAIN fs THEN [files |-> fs, err |-> TRUE]
    ELSE CHOOSE res \in
           {PruneLoop(fs2, i - 1, first) :
               fs2 \in {[j \in DOMAIN fs \ {i} |-> fs[j]]}} : TRUE

\* A pruneSegments that keeps one segment more than total.
pruneSegments_KeepsOneMore(wr, fs, total) ==
    PruneLoop(fs, wr.index - total - 1, wr.first)

pruneSegments(wr, fs, total) == PruneLoop(fs, wr.index - total, wr.first)

\* A Write that skips the segment write after a rotation.
WALWrite_DropsOnRotate(wr, fs, id, n) ==
    IF n + averageOverhead + wr.size > wr.opts.SegmentSize
    THEN LET rot == rotateSegment(wr, fs)
             pr  == pruneSegments(rot.w, rot.files, wr.opts.MaxSegments)
         IN  [w |-> rot.w, files |-> pr.files, err |-> pr.err, rotate |-> TRUE]
    ELSE [w |-> [wr EXCEPT !.size = @ + FrameLen(n), !.off = @ + FrameLen(n)],
          files |-> SegAppend(fs, wr.index, wr.off, DataFrame(id, n)),
          err |-> FALSE, rotate |-> FALSE]

\* WALWriter.Write(data), data being payload id of n bytes.
\* (rot, the outcome of the rotation, and pr, that of the pruning, are bound
\* as elements of singleton sets: each is computed once.)
WALWrite(wr, fs, id, n) ==
    LET rotate == n + averageOverhead + wr.size > wr.opts.SegmentSize
    IN  CHOOSE res \in
          { IF x.pr.err
            THEN [w |-> x.rot.w, files |-> x.pr.files, err |-> TRUE, rotate |-> rotate]
            ELSE [w |-> [x.rot.w EXCEPT !.size = @ + FrameLen(n),
                                        !.off = @ + FrameLen(n)],
                  files |-> SegAppend(x.pr.files, x.rot.w.index, x.rot.w.off,
                                      DataFrame(id, n)),
                  err |-> FALSE, rotate |-> rotate]
            : x \in { [rot |-> rot,
                       pr  |-> IF rotate
                               THEN pruneSegments(rot.w, rot.files, wr.opts.MaxSegments)
                               ELSE [files |-> fs, err |-> FALSE]]
                      : rot \in {IF rotate THEN rotateSegment(wr, fs)
                                 ELSE [w |-> wr, files |-> fs, err |-> FALSE]} } } : TRUE

\* WALWriter.Write(data) of a process that dies inside the segment write,
\* after the header of the record has reached the file.
WALWriteCut(wr, fs, id, n) ==
    LET rotate == n + averageOverhead + wr.size > wr.opts.SegmentSize
        rot    == IF rotate THEN rotateSegment(wr, fs)
                  ELSE [w |-> wr, files |-> fs, err |-> FALSE]
        pr     == IF rotate
                  THEN pruneSegments(rot.w, rot.files, wr.opts.MaxSegments)
                  ELSE [files |-> fs, err |-> FALSE]
    IN  IF pr.err
        THEN [w |-> rot.w, files |-> pr.files, err |-> TRUE, rotate |-> rotate]
        ELSE [w |-> rot.w,
              files |-> SegAppend(pr.files, rot.w.index, rot.w.off,
                                  TornFrame(DataFrame(id, n))),
              err |-> FALSE, rotate |-> rotate]

\* WALWriter.Pos
WriterPos(wr) == [Segment |-> wr.index, Offset |-> wr.size]

\* WALWriter.WriteTag(tag): cacheFile.Truncate(0), which leaves the handle's
\* offset where the last Encode ended; the tag record; then the cache map and
\* its document, written at that offset.
WALWriteTag(wr, fs, t) ==
    LET cache == [u \in DOMAIN wr.cache \cup {t} |->
                     IF u = t THEN WriterPos(wr) ELSE wr.cache[u]]
    IN  [w |-> [wr EXCEPT !.size = @ + FrameLen(TagLen(t)),
                          !.off = @ + FrameLen(TagLen(t)),
                          !.cache = cache,
                          !.cacheOff = @ + DocLen(cache)],
         files |-> SegAppend(fs, wr.index, wr.off, TagFrame(t)),
         tagsFile |-> [doc |-> TRUE, zeros |-> wr.cacheOff, tags |-> cache]]

\* WALWriter.Close
WALClose(wr, fs) ==
    [w |-> [wr EXCEPT !.open = FALSE], files |-> SegClose(fs, wr.index, wr.off)]

(***************************************************************************)
(* Segment reader.                                                         *)
(***************************************************************************)
OffsetOf(s, k) == BytesTo(s, k - 1)

\* The frame that starts at byte offset pos: its index, Len(s)+1 at the end
\* of the file, 0 when pos is inside a frame.
IndexAt(s, pos) ==
    IF \E k \in 1..(Len(s) + 1) : OffsetOf(s, k) = pos
    THEN CHOOSE k \in 1..(Len(s) + 1) : OffsetOf(s, k) = pos
    ELSE 0

\* SegmentReader.Next from offset pos of a file holding s: tag records are
\* skipped; the closing magic and a frame cut short do not decode.
\* (k0, the frame at pos, and k, the first frame from k0 on that is not a
\* tag record, are bound as elements of singleton sets: each is computed once.)
SegNext(s, pos) ==
    CHOOSE res \in
      { IF k0 = 0
        THEN [ok |-> FALSE, pos |-> pos, id |-> 0, err |-> "CorruptCRC"]
        ELSE CHOOSE r \in
          { IF k > Len(s)
            THEN [ok |-> FALSE, pos |-> OffsetOf(s, k), id |-> 0, err |-> "EOF"]
            ELSE IF s[k].typ = "d"
            THEN [ok |-> TRUE, pos |-> OffsetOf(s, k + 1), id |-> s[k].id, err |-> "nil"]
            ELSE [ok |-> FALSE, pos |-> OffsetOf(s, k), id |-> 0, err |-> "UnexpectedEOF"]
            : k \in {Min({j \in k0..(Len(s) + 1) : j > Len(s) \/ s[j].typ # "t"})} } : TRUE
        : k0 \in {IndexAt(s, pos)} } : TRUE

\* The frames a scan from frame k reads before EOF or a frame that does not decode.
RECURSIVE ScanEnd(_, _)
ScanEnd(s, k) ==
    IF k > Len(s) \/ s[k].typ \notin {"d", "t"} THEN k ELSE ScanEnd(s, k + 1)

\* SegmentReader.SeekTag(tag) from offset pos: the offset of the last record
\* of the tag, and the reader seeks to it; -1, and the reader is left where
\* the scan ended, when there is none.
SegSeekTag(s, pos, t) ==
    LET k0   == IndexAt(s, pos)
        kend == IF k0 = 0 THEN 0 ELSE ScanEnd(s, k0)
        hits == {k \in k0..(kend - 1) : k >= 1 /\ s[k].typ = "t" /\ s[k].tag = t}
    IN  IF hits = {}
        THEN [found |-> -1, pos |-> IF k0 = 0 THEN pos ELSE OffsetOf(s, kend)]
        ELSE [found |-> OffsetOf(s, Max(hits)), pos |-> OffsetOf(s, Max(hits))]

\* NewSegmentReader(path)
OpenSeg(i) == [idx |-> i, pos |-> 0, err |-> "nil"]

(***************************************************************************)
(* Log reader (wal.go).                                                    *)
(***************************************************************************)
NoReader ==
    [open |-> FALSE, first |-> 0, last |-> 0, index |-> 0, seg |-> NoSeg,
     lastSegPos |-> 0, err |-> "nil"]

\* What an open handle on segment i reads.
Content(fs, i) == IF i \in DOMAIN fs THEN fs[i] ELSE <<>>

\* rangeSegments
FirstSeg(fs) == IF DOMAIN fs = {} THEN -1 ELSE Min(DOMAIN fs)
LastSeg(fs)  == IF DOMAIN fs = {} THEN -1 ELSE Max(DOMAIN fs)

\* A Reset that starts at segment 0 whatever the directory holds.
Reset_FromZero(r, fs) ==
    IF FirstSeg(fs) = -1 THEN [r |-> r, err |-> "ErrNoSegments"]
    ELSE [r |-> [r EXCEPT !.open = TRUE, !.first = 0,
                          !.last = LastSeg(fs), !.index = 0,
                          !.seg = OpenSeg(0)],
          err |-> "nil"]

\* WALReader.Reset
Reset(r, fs) ==
    IF FirstSeg(fs) = -1 THEN [r |-> r, err |-> "ErrNoSegments"]
    ELSE [r |-> [r EXCEPT !.open = TRUE, !.first = FirstSeg(fs),
                          !.last = LastSeg(fs), !.index = FirstSeg(fs),
                          !.seg = OpenSeg(FirstSeg(fs))],
          err |-> "nil"]

\* NewReader
NewReader(fs) == Reset(NoReader, fs)

(***************************************************************************)
(* The directory by file names.  A name is a sequence of characters; dir   *)
(* is a function from the names of the files present to their content.     *)
(***************************************************************************)
DigitChars == <<"0", "1", "2", "3", "4", "5", "6", "7", "8", "9">>
IsDigit(c) == \E i \in 1..10 : DigitChars[i] = c
DigitVal(c) == (CHOOSE i \in 1..10 : DigitChars[i] = c) - 1

\* The number the digits s[1..k] spell.
RECURSIVE DigitsVal(_, _)
DigitsVal(s, k) == IF k = 0 THEN 0 ELSE 10 * DigitsVal(s, k - 1) + DigitVal(s[k])

\* strconv.Atoi(s): an optional sign, then one digit or more.
Atoi(s) ==
    LET signed == s # <<>> /\ s[1] \in {"+", "-"}
        ds     == IF signed THEN Tail(s) ELSE s
    IN  IF ds = <<>> \/ \E i \in 1..Len(ds) : ~IsDigit(ds[i])
        THEN [ok |-> FALSE, val |-> 0]
        ELSE [ok |-> TRUE,
              val |-> IF s[1] = "-" THEN 0 - DigitsVal(ds, Len(ds))
                      ELSE DigitsVal(ds, Len(ds))]

\* fmt.Sprintf("%d", n)
RECURSIVE Itoa(_)
Itoa(n) ==
    IF n < 0 THEN <<"-">> \o Itoa(0 - n)
    ELSE IF n < 10 THEN <<DigitChars[n + 1]>>
    ELSE Itoa(n \div 10) \o <<DigitChars[(n % 10) + 1]>>

\* The orders in which Readdirnames may list the names of S.
RECURSIVE Listings(_)
Listings(S) ==
    IF S = {} THEN {<<>>}
    ELSE UNION {{<<x>> \o o : o \in Listings(S \ {x})} : x \in S}

\* The loop of rangeSegments over the listing names, from its i-th name on.
RECURSIVE RangeLoop(_, _, _, _)
RangeLoop(names, i, first, last) ==
    IF i > Len(names) THEN [first |-> first, last |-> last]
    ELSE LET a == Atoi(names[i])
         IN  IF ~a.ok THEN RangeLoop(names, i + 1, first, last)
             ELSE RangeLoop(names, i + 1,
                            IF first = -1 \/ a.val < first THEN a.val ELSE first,
                            IF last = -1 \/ a.val > last THEN a.val ELSE last)

\* rangeSegments(path), Readdirnames having returned names.
rangeSegments(names) == RangeLoop(names, 1, -1, -1)

\* A Reset without the test of first == -1.
ResetDir_NoSegmentsTest(r, dir, names) ==
    LET rg == rangeSegments(names)
    IN  IF Itoa(rg.first) \notin DOMAIN dir
        THEN [r |-> IF r.seg = NoSeg THEN r ELSE [r EXCEPT !.seg.err = "closed"],
              err |-> "ENOENT"]
        ELSE [r |-> [r EXCEPT !.open = TRUE, !.first = rg.first, !.last = rg.last,
                              !.index = rg.first, !.seg = OpenSeg(rg.first)],
              err |-> "nil"]

\* WALReader.Reset on the directory dir, listed as names: the open segment
\* is closed; ErrNoSegments when no name is a number; else the segment named
\* Sprintf("%d", first) is opened and the fields are set.
ResetDir(r, dir, names) ==
    LET rg     == rangeSegments(names)
        closed == IF r.seg = NoSeg THEN r ELSE [r EXCEPT !.seg.err = "closed"]
    IN  IF rg.first = -1 THEN [r |-> closed, err |-> "ErrNoSegments"]
        ELSE IF Itoa(rg.first) \notin DOMAIN dir THEN [r |-> closed, err |-> "ENOENT"]
        ELSE [r |-> [r EXCEPT !.open = TRUE, !.first = rg.first, !.last = rg.last,
                              !.index = rg.first, !.seg = OpenSeg(rg.first)],
              err |-> "nil"]

\* The loop of WALReader.Next: open the following segments until one yields
\* a record or the index passes last.
RECURSIVE NextLoop(_, _)
NextLoop(r, fs) ==
    LET i == r.index + 1 IN
    IF i > r.last
    THEN [r |-> [r EXCEPT !.index = r.last], ok |-> FALSE, id |-> 0]
    ELSE IF i \notin DOMAIN fs
    THEN [r |-> [r EXCEPT !.index = i, !.err = "ENOENT"], ok |-> FALSE, id |-> 0]
    ELSE CHOOSE res \in
           { IF n.ok
             THEN [r |-> [r EXCEPT !.index = i,
                                   !.seg = [idx |-> i, pos |-> n.pos, err |-> "nil"]],
                   ok |-> TRUE, id |-> n.id]
             ELSE CHOOSE x \in {NextLoop(r2, fs) : r2 \in {[r EXCEPT !.index = i]}} : TRUE
             : n \in {SegNext(fs[i], 0)} } : TRUE

\* A Next whose loop starts at the current segment instead of the one after it.
WALReaderNext_NoAdvance(r, fs) ==
    IF r.seg = NoSeg THEN [r |-> r, ok |-> FALSE, id |-> 0]
    ELSE LET n == SegNext(Content(fs, r.seg.idx), r.seg.pos) IN
         IF n.ok
         THEN [r |-> [r EXCEPT !.seg.pos = n.pos], ok |-> TRUE, id |-> n.id]
         ELSE NextLoop([r EXCEPT !.lastSegPos = n.pos, !.seg = NoSeg,
                                 !.index = @ - 1], fs)

\* WALReader.Next
WALReaderNext(r, fs) ==
    IF r.seg = NoSeg THEN [r |-> r, ok |-> FALSE, id |-> 0]
    ELSE CHOOSE res \in
           { IF n.ok
             THEN [r |-> [r EXCEPT !.seg.pos = n.pos], ok |-> TRUE, id |-> n.id]
             ELSE CHOOSE x \in
                    {NextLoop(r2, fs) :
                        r2 \in {[r EXCEPT !.lastSegPos = n.pos, !.seg = NoSeg]}} : TRUE
             : n \in {SegNext(Content(fs, r.seg.idx), r.seg.pos)} } : TRUE

\* WALReader.Pos
WALReaderPos(r) ==
    IF r.seg = NoSeg THEN [Segment |-> r.index, Offset |-> r.lastSegPos]
    ELSE [Segment |-> r.index, Offset |-> r.seg.pos]

\* WALReader.Error
ReaderError(r) ==
    IF r.err # "nil" THEN r.err
    ELSE IF r.seg # NoSeg THEN r.seg.err
    ELSE "nil"

\* WALReader.Seek(p)
WALSeek(r, fs, p) ==
    IF p.Segment \notin DOMAIN fs THEN [r |-> r, err |-> "ENOENT"]
    ELSE [r |-> [r EXCEPT !.index = p.Segment,
                          !.seg = [idx |-> p.Segment, pos |-> p.Offset, err |-> "nil"]],
          err |-> "nil"]

\* The loop of WALReader.SeekTag: every segment from first up to the first
\* index that has no file; each one opened becomes the reader's segment.
RECURSIVE SeekTagLoop(_, _, _, _, _)
SeekTagLoop(r, fs, t, index, lastPos) ==
    IF index \notin DOMAIN fs THEN [r |-> r, pos |-> lastPos]
    ELSE LET st == SegSeekTag(fs[index], 0, t) IN
         SeekTagLoop([r EXCEPT !.seg = [idx |-> index, pos |-> st.pos, err |-> "nil"]],
                     fs, t, index + 1,
                     IF st.found >= 0
                     THEN [Segment |-> index, Offset |-> st.found]
                     ELSE lastPos)

\* A SeekTag whose scan starts at segment 0 instead of the reader's first.
WALSeekTag_FromZero(r, fs, t) == SeekTagLoop(r, fs, t, 0, NonePos)

\* WALReader.SeekTag
WALSeekTag(r, fs, t) == SeekTagLoop(r, fs, t, r.first, NonePos)

\* A BeginRecovery that does not reset the reader when the tag is not found.
BeginRecovery_NoReset(fs, t) ==
    WALSeekTag(NewReader(fs).r, fs, t)

\* BeginRecovery(path, tag)
BeginRecovery(fs, t) ==
    LET st == WALSeekTag(NewReader(fs).r, fs, t) IN
    IF st.pos.Segment = -1
    THEN [r |-> Reset(st.r, fs).r, pos |-> st.pos]
    ELSE st

(***************************************************************************)
(* History helpers.                                                        *)
(***************************************************************************)
HistEntry(f, seg) ==
    [typ |-> f.typ, id |-> f.id, tag |-> f.tag, seg |-> seg, sess |-> nsess]

RECURSIVE Ids(_)
Ids(h) ==
    IF h = <<>> THEN <<>>
    ELSE IF Head(h).typ = "d" THEN <<Head(h).id>> \o Ids(Tail(h))
    ELSE Ids(Tail(h))

IsPrefix(a, b) == Len(a) <= Len(b) /\ a = SubSeq(b, 1, Len(a))

Removed(fs, fs2) == ~(DOMAIN fs \subseteq DOMAIN fs2)

\* BlockingNext's history: whether a call is in progress, whether it has
\* returned, whether the reader had been given every record written when it
\* was called, and the number of completed paired Writes then and at return.
NoCall ==
    [active |-> FALSE, returned |-> FALSE, caughtUp |-> FALSE,
     atCall |-> 0, atReturn |-> 0]

NoReq == [op |-> "none", n |-> 0, t |-> ""]

\* lastOp: the operation, whether a Write rotated and failed, the payload
\* id, and the active index and the directory the operation found.
NoOp == [op |-> "none", rotate |-> FALSE, err |-> FALSE, id |-> 0,
         index |-> 0, dom |-> {}, truncated |-> FALSE]

NoCap == [pos |-> NonePos, at |-> 0]

\* What a call of wal.Pos() returns from writer wr after the writes of h.
PosNow(wr, h) == [pos |-> WriterPos(wr), at |-> Len(h)]

FreshAux ==
    /\ tagPos = [t \in Tags |-> NonePos]
    /\ lastOp = NoOp
    /\ posLog = {PosNow(w, <<>>)}
    /\ cap = NoCap
    /\ nsess = 1 /\ prevEnd = "none" /\ crashed = FALSE

IdlePair ==
    /\ wpc = "idle" /\ wreq = NoReq
    /\ rpc = "idle" /\ plock = "none" /\ pwgen = 0 /\ rgen = 0
    /\ bn = NoCall
    /\ used = {}

(***************************************************************************)
(* Spec: a writer session on a fresh directory, then a reader session.     *)
(***************************************************************************)
\* A writer opened with the options of O on a directory that does not exist.
InitWith(O) ==
    /\ \E o \in O :
          LET nw == NewWithOptions(<<>>, o) IN w = nw.w /\ files = nw.files
    /\ tagsFile = EmptyTagsFile
    /\ hist = <<>> /\ werr = FALSE /\ pruned = FALSE /\ nops = 0
    /\ FreshAux
    /\ rd = NoReader /\ mode = "none" /\ seekTag = "" /\ seekRes = NonePos
    /\ out = <<>> /\ lastNext = "none"
    /\ IdlePair

Init == InitWith(OptionsSet)

Writing == w.open /\ mode = "none" /\ nops < MaxOps

\* wal.Write(data)
Write(n) ==
    /\ Writing
    /\ LET res == WALWrite(w, files, nops + 1, n) IN
          /\ w' = res.w
          /\ files' = res.files
          /\ werr' = (werr \/ res.err)
          /\ pruned' = (pruned \/ Removed(files, res.files))
          /\ hist' = IF res.err THEN hist
                     ELSE Append(hist, HistEntry(DataFrame(nops + 1, n), res.w.index))
          /\ lastOp' = [op |-> "Write", rotate |-> res.rotate, err |-> res.err,
                        id |-> nops + 1, index |-> w.index, dom |-> DOMAIN files,
                        truncated |-> FALSE]
    /\ posLog' = posLog \cup {PosNow(w', hist')}
    /\ nops' = nops + 1
    /\ UNCHANGED <<tagsFile, tagPos, cap, nsess, prevEnd, crashed, readVars, pairVars>>

\* wal.WriteTag(tag)
WriteTag(t) ==
    /\ Writing
    /\ LET res == WALWriteTag(w, files, t) IN
          /\ w' = res.w
          /\ files' = res.files
          /\ tagsFile' = res.tagsFile
    /\ hist' = Append(hist, HistEntry(TagFrame(t), w.index))
    /\ tagPos' = [tagPos EXCEPT ![t] = WriterPos(w)]
    /\ posLog' = posLog \cup {PosNow(w', hist')}
    /\ lastOp' = [NoOp EXCEPT !.op = "WriteTag", !.index = w.index,
                              !.dom = DOMAIN files]
    /\ nops' = nops + 1
    /\ UNCHANGED <<werr, pruned, cap, nsess, prevEnd, crashed, readVars, pairVars>>

\* wal.Close()
Close ==
    /\ w.open /\ mode = "none"
    /\ LET res == WALClose(w, files) IN w' = res.w /\ files' = res.files
    /\ lastOp' = [NoOp EXCEPT !.op = "Close", !.index = w.index,
                              !.dom = DOMAIN files]
    /\ UNCHANGED <<tagsFile, hist, werr, pruned, nops, tagPos, posLog, cap, nsess,
                   prevEnd, crashed, readVars, pairVars>>

\* r, _ := NewReader(path)
OpenReader ==
    /\ mode = "none"
    /\ rd' = NewReader(files).r
    /\ mode' = "iter"
    /\ UNCHANGED <<logVars, seekTag, seekRes, out, lastNext, pairVars>>

\* pos, _ := r.SeekTag(tag) on a reader just opened
SeekTagCall(t) ==
    /\ mode = "iter" /\ lastNext = "none"
    /\ LET st == WALSeekTag(rd, files, t) IN rd' = st.r /\ seekRes' = st.pos
    /\ seekTag' = t
    /\ mode' = "seektag"
    /\ UNCHANGED <<logVars, out, lastNext, pairVars>>

\* r, _ := BeginRecovery(path, tag)
Recover(t) ==
    /\ mode = "none"
    /\ LET st == BeginRecovery(files, t) IN rd' = st.r /\ seekRes' = st.pos
    /\ seekTag' = t
    /\ mode' = "recovery"
    /\ UNCHANGED <<logVars, out, lastNext, pairVars>>

\* r.Next()
Next_ ==
    /\ mode # "none"
    /\ LET res == WALReaderNext(rd, files) IN
          /\ rd' = res.r
          /\ out' = IF res.ok THEN Append(out, res.id) ELSE out
          /\ lastNext' = IF res.ok THEN "true" ELSE "false"
    /\ UNCHANGED <<logVars, mode, seekTag, seekRes, pairVars>>

Next ==
    \/ \E n \in DataLens : Write(n)
    \/ \E t \in Tags : WriteTag(t)
    \/ Close
    \/ OpenReader
    \/ \E t \in Tags : SeekTagCall(t)
    \/ \E t \in Tags : Recover(t)
    \/ Next_

Spec == Init /\ [][Next]_vars

(***************************************************************************)
(* ReopenSpec: the operations of Spec, and writers that follow one another *)
(* on the directory: a writer ends with Close or with the death of its     *)
(* process (between two calls, or inside the segment write of a Write),    *)
(* and NewWithOptions opens the next one with the same options.  The       *)
(* caller may capture Pos() once and Seek a reader to it.                  *)
(***************************************************************************)
\* The writer of ReopenSpec may go on writing.
ReWriting == Writing /\ nops < MaxReopenOps

\* wal.Write(data) and wal.WriteTag(tag) of a writer of ReopenSpec.
ReWrite(n) == ReWriting /\ Write(n)

ReWriteTag(t) == ReWriting /\ WriteTag(t)

\* The process dies: no Close.
Crash ==
    /\ Writing
    /\ w' = [w EXCEPT !.open = FALSE]
    /\ crashed' = TRUE
    /\ lastOp' = [NoOp EXCEPT !.op = "Crash", !.index = w.index,
                              !.dom = DOMAIN files]
    /\ UNCHANGED <<files, tagsFile, hist, werr, pruned, nops, tagPos, posLog, cap,
                   nsess, prevEnd, readVars, pairVars>>

\* The process dies inside wal.Write(data): the record is cut short.
CrashInWrite(n) ==
    /\ ReWriting
    /\ LET res == WALWriteCut(w, files, nops + 1, n) IN
          /\ ~res.err
          /\ w' = [res.w EXCEPT !.open = FALSE]
          /\ files' = res.files
          /\ pruned' = (pruned \/ Removed(files, res.files))
    /\ crashed' = TRUE
    /\ lastOp' = [NoOp EXCEPT !.op = "Crash", !.index = w.index,
                              !.dom = DOMAIN files]
    /\ nops' = nops + 1
    /\ UNCHANGED <<tagsFile, hist, werr, tagPos, posLog, cap, nsess, prevEnd,
                   readVars, pairVars>>

\* wal, _ := NewWithOptions(path, opts) on the directory as it is.
Reopen ==
    /\ ~w.open /\ mode = "none" /\ nsess < MaxSessions
    /\ LET nw == NewWithOptions(files, w.opts) IN w' = nw.w /\ files' = nw.files
    /\ tagsFile' = EmptyTagsFile
    /\ nsess' = nsess + 1
    /\ prevEnd' = IF lastOp.op = "Close" THEN "close" ELSE "crash"
    /\ lastOp' = [NoOp EXCEPT !.op = "Open", !.index = w.index,
                              !.dom = DOMAIN files]
    /\ posLog' = posLog \cup {PosNow(w', hist)}
    /\ UNCHANGED <<hist, werr, pruned, nops, tagPos, cap, crashed,
                   readVars, pairVars>>

\* err := r.Seek(pos) on a reader just opened, pos being a Position that
\* wal.Pos() returned at some point of the writing.
SeekCall ==
    /\ mode = "iter" /\ lastNext = "none"
    /\ \E c \in posLog :
          LET sk == WALSeek(rd, files, c.pos) IN
              /\ rd' = sk.r
              /\ mode' = IF sk.err = "nil" THEN "seek" ELSE "seekfail"
              /\ cap' = c
              /\ seekRes' = c.pos
    /\ UNCHANGED <<files, tagsFile, w, hist, werr, pruned, nops, tagPos, lastOp,
                   posLog, nsess, prevEnd, crashed, seekTag, out, lastNext, pairVars>>

\* r, _ := NewReader(path) once the last writer has ended
OpenReaderAtRest == ~w.open /\ OpenReader

ReopenInit == InitWith(ReopenOptions)

ReopenNext ==
    \/ \E n \in ReopenLens : ReWrite(n)
    \/ \E t \in ReopenTags : ReWriteTag(t)
    \/ Close
    \/ Crash
    \/ \E n \in ReopenLens : CrashInWrite(n)
    \/ Reopen
    \/ OpenReaderAtRest
    \/ SeekCall
    \/ Next_

ReopenSpec == ReopenInit /\ [][ReopenNext]_vars

(***************************************************************************)
(* SegSpec: one segment file, path, used without a log: segment writers    *)
(* that follow one another on it (NewSegmentWriter; Write, WriteTag, Pos,  *)
(* Truncate; Close, or the death of the process) and then a segment        *)
(* reader (NewSegmentReader; Seek, Next).  w holds the segment writer's    *)
(* size, file offset and clean flag, rd.seg the segment reader's position. *)
(***************************************************************************)
\* The handle NewSegmentWriter(path) returns on a file holding s.
SegWriter(s) ==
    [open |-> TRUE, first |-> 0, index |-> 0,
     size |-> SegOpen(s).size, off |-> SegOpen(s).off, clean |-> SegOpen(s).clean,
     opts |-> DefaultWriteOptions, cache |-> [t \in {} |-> NonePos], cacheOff |-> 0]

SegInit ==
    /\ files = (0 :> <<>>)
    /\ w = SegWriter(<<>>)
    /\ tagsFile = EmptyTagsFile
    /\ hist = <<>> /\ werr = FALSE /\ pruned = FALSE /\ nops = 0
    /\ FreshAux
    /\ rd = NoReader /\ mode = "none" /\ seekTag = "" /\ seekRes = NonePos
    /\ out = <<>> /\ lastNext = "none"
    /\ IdlePair

\* The writer may go on writing: it is open, it has not truncated the file.
SegWriting ==
    w.open /\ mode = "none" /\ nops < MaxSegOps /\ lastOp.op # "Truncate"

\* segment.Write(data) / segment.WriteTag(tag): the frame f.
SegWriteFrame(f) ==
    /\ SegWriting
    /\ files' = SegAppend(files, 0, w.off, f)
    /\ w' = [w EXCEPT !.size = @ + DiskLen(f), !.off = @ + DiskLen(f)]
    /\ hist' = Append(hist, HistEntry(f, 0))
    /\ lastOp' = [NoOp EXCEPT !.op = "Write", !.id = f.id, !.dom = {0}]
    /\ posLog' = posLog \cup {PosNow(w', hist')}
    /\ nops' = nops + 1
    /\ UNCHANGED <<tagsFile, werr, pruned, tagPos, cap, nsess, prevEnd, crashed,
                   readVars, pairVars>>

SegWrite(n) == SegWriteFrame(DataFrame(nops + 1, n))

SegWriteTag(t) == SegWriteFrame(TagFrame(t))

\* segment.Truncate(pos), pos being a value Pos() returned earlier.
SegTruncateCall ==
    /\ SegWriting /\ cap = NoCap
    /\ \E c \in posLog :
          /\ files' = [files EXCEPT ![0] = SegTruncate(@, c.pos.Offset)]
          /\ cap' = c
    /\ lastOp' = [NoOp EXCEPT !.op = "Truncate", !.dom = {0}]
    /\ nops' = nops + 1
    /\ UNCHANGED <<tagsFile, w, hist, werr, pruned, tagPos, posLog, nsess,
                   prevEnd, crashed, readVars, pairVars>>

\* segment.Close()
SegCloseCall ==
    /\ w.open /\ mode = "none"
    /\ files' = SegClose(files, 0, w.off)
    /\ w' = [w EXCEPT !.open = FALSE]
    /\ lastOp' = [NoOp EXCEPT !.op = "Close", !.dom = {0},
                              !.truncated = (lastOp.op = "Truncate")]
    /\ UNCHANGED <<tagsFile, hist, werr, pruned, nops, tagPos, posLog, cap, nsess,
                   prevEnd, crashed, readVars, pairVars>>

\* The process dies with the writer open: no Close.
SegCrash ==
    /\ w.open /\ mode = "none"
    /\ w' = [w EXCEPT !.open = FALSE]
    /\ crashed' = TRUE
    /\ lastOp' = [NoOp EXCEPT !.op = "Crash", !.dom = {0}]
    /\ UNCHANGED <<files, tagsFile, hist, werr, pruned, nops, tagPos, posLog, cap,
                   nsess, prevEnd, readVars, pairVars>>

\* NewSegmentWriter(path) on the file the previous writer left.
SegReopen ==
    /\ ~w.open /\ mode = "none" /\ nsess < MaxSegSessions
    /\ w' = SegWriter(files[0])
    /\ nsess' = nsess + 1
    /\ prevEnd' = IF lastOp.op = "Close" THEN "close" ELSE "crash"
    /\ lastOp' = [NoOp EXCEPT !.op = "Open", !.dom = {0},
                              !.truncated = lastOp.truncated]
    /\ posLog' = posLog \cup {PosNow(w', hist)}
    /\ UNCHANGED <<files, tagsFile, hist, werr, pruned, nops, tagPos, cap, crashed,
                   readVars, pairVars>>

\* r, _ := NewSegmentReader(path), once the writer has ended
SegOpenReader ==
    /\ ~w.open /\ mode = "none"
    /\ rd' = [NoReader EXCEPT !.open = TRUE, !.seg = OpenSeg(0)]
    /\ mode' = "segiter"
    /\ UNCHANGED <<logVars, seekTag, seekRes, out, lastNext, pairVars>>

\* r.Seek(pos) on a reader just opened, pos being a value Pos() returned.
SegSeekCall ==
    /\ mode = "segiter" /\ lastNext = "none" /\ cap = NoCap
    /\ \E c \in posLog :
          /\ rd' = [rd EXCEPT !.seg.pos = c.pos.Offset]
          /\ cap' = c
          /\ seekRes' = c.pos
    /\ mode' = "segseek"
    /\ UNCHANGED <<files, tagsFile, w, hist, werr, pruned, nops, tagPos, lastOp,
                   posLog, nsess, prevEnd, crashed, seekTag, out, lastNext, pairVars>>

\* r.Next() of the segment reader
SegNextCall ==
    /\ mode \in {"segiter", "segseek"}
    /\ LET n == SegNext(files[0], rd.seg.pos) IN
          /\ rd' = [rd EXCEPT !.seg.pos = n.pos, !.seg.err = n.err]
          /\ out' = IF n.ok THEN Append(out, n.id) ELSE out
          /\ lastNext' = IF n.ok THEN "true" ELSE "false"
    /\ UNCHANGED <<logVars, mode, seekTag, seekRes, pairVars>>

SegSpecNext ==
    \/ \E n \in SegLens : SegWrite(n)
    \/ \E t \in ReopenTags : SegWriteTag(t)
    \/ SegTruncateCall
    \/ SegCloseCall
    \/ SegCrash
    \/ SegReopen
    \/ SegOpenReader
    \/ SegSeekCall
    \/ SegNextCall

SegSpec == SegInit /\ [][SegSpecNext]_vars

(***************************************************************************)
(* CodecSpec: one segment file at the level of bytes.  A segment writer    *)
(* appends the frames encode makes of data and tag payloads; a segment     *)
(* reader then decodes the file record by record.  files[0] is the         *)
(* sequence of the bytes of the file, hist the payloads written, out what  *)
(* Next handed over: type, value and CRC().                                *)
(***************************************************************************)
\* A payload of n bytes without a repeated run: 1, 2, ..., n.
Ramp(n) == [i \in 1..n |-> i % 256]

\* The payloads written: empty, short ones with the bytes 0x00 and 0xff, and
\* one whose compressed form is longer than 127 bytes, so that its length
\* takes two varint bytes.
CodecPayloads ==
    {<<>>, <<0>>, <<255>>, <<0, 0>>, <<255, 0>>, <<100, 116>>, Ramp(LongLen)}

CodecTags == {<<65>>}

CodecInit ==
    /\ files = (0 :> <<>>)
    /\ w = SegWriter(<<>>)
    /\ tagsFile = EmptyTagsFile
    /\ hist = <<>> /\ werr = FALSE /\ pruned = FALSE /\ nops = 0
    /\ FreshAux
    /\ rd = NoReader /\ mode = "none" /\ seekTag = "" /\ seekRes = NonePos
    /\ out = <<>> /\ lastNext = "none"
    /\ IdlePair

\* The segment writer writes the frame of a payload of type typ.
CodecWriteFrame(typ, d) ==
    /\ mode = "none" /\ nops < MaxCodecOps
    /\ files' = [files EXCEPT ![0] = @ \o Encode(typ, d)]
    /\ hist' = Append(hist, [typ |-> typ, data |-> d])
    /\ nops' = nops + 1
    /\ UNCHANGED <<tagsFile, w, werr, pruned, auxVars, readVars, pairVars>>

\* SegmentWriter.Write(data)
CodecWrite(d) == CodecWriteFrame(TypeData, d)

\* SegmentWriter.WriteTag(tag)
CodecWriteTag(t) == CodecWriteFrame(TypeTag, t)

\* NewSegmentReader(path)
CodecOpenReader ==
    /\ mode = "none"
    /\ rd' = [NoReader EXCEPT !.open = TRUE, !.seg = OpenSeg(0)]
    /\ mode' = "codec"
    /\ UNCHANGED <<logVars, seekTag, seekRes, out, lastNext, pairVars>>

\* r.Next(), then r.Value() and r.CRC()
CodecNext ==
    /\ mode = "codec" /\ lastNext # "false"
    /\ \E n \in {ByteNext(files[0], rd.seg.pos)} :
          /\ rd' = [rd EXCEPT !.seg.pos = n.pos, !.seg.err = n.err]
          /\ out' = IF n.ok
                    THEN Append(out, [typ |-> n.typ, data |-> n.data, crc |-> n.crc])
                    ELSE out
          /\ lastNext' = IF n.ok THEN "true" ELSE "false"
    /\ UNCHANGED <<logVars, mode, seekTag, seekRes, pairVars>>

CodecSpecNext ==
    \/ \E d \in CodecPayloads : CodecWrite(d)
    \/ \E t \in CodecTags : CodecWriteTag(t)
    \/ CodecOpenReader
    \/ CodecNext

CodecSpec == CodecInit /\ [][CodecSpecNext]_vars

(***************************************************************************)
(* DirSpec: NewReader and Reset on directories of any content.  files is   *)
(* the directory by names; other programs (a log writer among them) create *)
(* and remove files.  mode is the error the last NewReader or Reset        *)
(* returned, lastOp.dom the names the directory held then.                 *)
(***************************************************************************)
\* The names a directory may hold: segments 0, 2 and 10, a zero-padded
\* number, the tag cache and a file that is no number.
DirNames ==
    {<<"0">>, <<"2">>, <<"1", "0">>, <<"0", "1">>,
     <<"t", "a", "g", "s">>, <<"1", "x">>}

DirInit ==
    /\ \E S \in SUBSET DirNames : files = [n \in S |-> <<>>]
    /\ w = [SegWriter(<<>>) EXCEPT !.open = FALSE]
    /\ tagsFile = EmptyTagsFile
    /\ hist = <<>> /\ werr = FALSE /\ pruned = FALSE /\ nops = 0
    /\ FreshAux
    /\ rd = NoReader /\ mode = "none" /\ seekTag = "" /\ seekRes = NonePos
    /\ out = <<>> /\ lastNext = "none"
    /\ IdlePair

\* A file named n is created in the directory.
DirCreate(n) ==
    /\ nops < MaxDirOps /\ n \notin DOMAIN files
    /\ files' = [x \in DOMAIN files \cup {n} |-> <<>>]
    /\ nops' = nops + 1
    /\ UNCHANGED <<tagsFile, w, hist, werr, pruned, auxVars, readVars, pairVars>>

\* The file named n is removed.
DirRemove(n) ==
    /\ nops < MaxDirOps /\ n \in DOMAIN files
    /\ files' = [x \in DOMAIN files \ {n} |-> <<>>]
    /\ nops' = nops + 1
    /\ UNCHANGED <<tagsFile, w, hist, werr, pruned, auxVars, readVars, pairVars>>

\* r, err := NewReader(path): no reader is returned with an error.
DirNewReader ==
    /\ ~rd.open
    /\ \E names \in Listings(DOMAIN files) :
       \E res \in {ResetDir(NoReader, files, names)} :
          /\ rd' = IF res.err = "nil" THEN res.r ELSE NoReader
          /\ mode' = res.err
    /\ lastOp' = [NoOp EXCEPT !.op = "NewReader", !.dom = DOMAIN files]
    /\ UNCHANGED <<files, tagsFile, w, hist, werr, pruned, nops, tagPos, posLog,
                   cap, nsess, prevEnd, crashed, seekTag, seekRes, out, lastNext,
                   pairVars>>

\* err := r.Reset()
DirReset ==
    /\ rd.open
    /\ \E names \in Listings(DOMAIN files) :
       \E res \in {ResetDir(rd, files, names)} :
          /\ rd' = res.r
          /\ mode' = res.err
    /\ lastOp' = [NoOp EXCEPT !.op = "Reset", !.dom = DOMAIN files]
    /\ UNCHANGED <<files, tagsFile, w, hist, werr, pruned, nops, tagPos, posLog,
                   cap, nsess, prevEnd, crashed, seekTag, seekRes, out, lastNext,
                   pairVars>>

DirSpecNext ==
    \/ \E n \in DirNames : DirCreate(n)
    \/ \E n \in DirNames : DirRemove(n)
    \/ DirNewReader
    \/ DirReset

DirSpec == DirInit /\ [][DirSpecNext]_vars

(***************************************************************************)
(* OptSpec: CalculateFromTotal applied to WriteOptions values.  w.opts is  *)
(* the WriteOptions value, lastOp the call last made: its total and the    *)
(* options it found.                                                       *)
(***************************************************************************)
\* The options before the call: MaxSegments unset (0) or set, SegmentSize
\* unset or the default.
OptInputs ==
    [SegmentSize : {0, MaxSegmentSize}, MaxSegments : {0, 1, 3, DefaultWriteOptions.MaxSegments}]

\* The totals asked for: around 0, around one and two segments of the
\* greatest size, and many segments with a remainder.
TotalInputs ==
    {0, 1, SmallTotal, MaxSegmentSize - 1, MaxSegmentSize, MaxSegmentSize + 1,
     2 * MaxSegmentSize - 1, 2 * MaxSegmentSize, 2 * MaxSegmentSize + 1,
     DefaultWriteOptions.MaxSegments * MaxSegmentSize,
     ManySegments * MaxSegmentSize + SmallTotal}

OptInit ==
    /\ files = (0 :> <<>>)
    /\ \E o \in OptInputs : w = [SegWriter(<<>>) EXCEPT !.open = FALSE, !.opts = o]
    /\ tagsFile = EmptyTagsFile
    /\ hist = <<>> /\ werr = FALSE /\ pruned = FALSE /\ nops = 0
    /\ FreshAux
    /\ rd = NoReader /\ mode = "none" /\ seekTag = "" /\ seekRes = NonePos
    /\ out = <<>> /\ lastNext = "none"
    /\ IdlePair

\* opts.CalculateFromTotal(total)
CalculateFromTotalCall(total) ==
    /\ nops < MaxCalcOps
    /\ w' = [w EXCEPT !.opts = CalculateFromTotal(w.opts, total)]
    /\ lastOp' = [op |-> "CalculateFromTotal", total |-> total, before |-> w.opts]
    /\ nops' = nops + 1
    /\ UNCHANGED <<files, tagsFile, hist, werr, pruned, tagPos, posLog, cap, nsess,
                   prevEnd, crashed, readVars, pairVars>>

OptSpecNext == \E total \in TotalInputs : CalculateFromTotalCall(total)

OptSpec == OptInit /\ [][OptSpecNext]_vars

(***************************************************************************)
(* TagSpec: WALWriter.WriteTag step by step on a file system whose         *)
(* operations can fail: cacheFile.Truncate(0); segment.WriteTag; the cache *)
(* map, cacheEnc.Encode and cacheFile.Sync.  wpc is the writer's position  *)
(* inside WriteTag, lastOp the call in progress or the last one: the tag,  *)
(* which steps failed, what was returned, and the cache map and the tags   *)
(* file the call found.  A failed write leaves its file as it was.         *)
(***************************************************************************)
NoTagCall ==
    [op |-> "none", tag |-> "", pos |-> NonePos, done |-> FALSE, ret |-> "nil",
     truncErr |-> FALSE, segErr |-> FALSE, encErr |-> FALSE, syncErr |-> FALSE,
     cacheBefore |-> [t \in {} |-> NonePos], fileBefore |-> EmptyTagsFile]

TagInit ==
    /\ \E nw \in {NewWithOptions(<<>>, DefaultWriteOptions)} :
          w = nw.w /\ files = nw.files
    /\ tagsFile = EmptyTagsFile
    /\ hist = <<>> /\ werr = FALSE /\ pruned = FALSE /\ nops = 0
    /\ tagPos = [t \in Tags |-> NonePos]
    /\ lastOp = NoTagCall
    /\ posLog = {} /\ cap = NoCap
    /\ nsess = 1 /\ prevEnd = "none" /\ crashed = FALSE
    /\ rd = NoReader /\ mode = "tags" /\ seekTag = "" /\ seekRes = NonePos
    /\ out = <<>> /\ lastNext = "none"
    /\ IdlePair

\* wal.Write(data) between two WriteTag calls.
TagWrite(n) ==
    /\ wpc = "idle" /\ nops < MaxTagOps
    /\ \E res \in {WALWrite(w, files, nops + 1, n)} :
          /\ w' = res.w
          /\ files' = res.files
          /\ hist' = Append(hist, HistEntry(DataFrame(nops + 1, n), res.w.index))
    /\ nops' = nops + 1
    /\ UNCHANGED <<tagsFile, werr, pruned, auxVars, readVars, pairVars>>

\* WriteTag(tag) is called: truncErr := wal.cacheFile.Truncate(0).  A
\* Truncate that succeeds leaves the file empty.
TagTruncate(t, ok) ==
    /\ wpc = "idle" /\ nops < MaxTagOps
    /\ wpc' = "t_trunc"
    /\ nops' = nops + 1
    /\ tagsFile' = IF ok THEN [tagsFile EXCEPT !.doc = FALSE, !.zeros = 0]
                   ELSE tagsFile
    /\ lastOp' = [NoTagCall EXCEPT !.op = "WriteTag", !.tag = t,
                                   !.truncErr = ~ok,
                                   !.cacheBefore = w.cache,
                                   !.fileBefore = tagsFile]
    /\ UNCHANGED <<files, w, hist, werr, pruned, tagPos, posLog, cap, nsess,
                   prevEnd, crashed, readVars, wreq, rpc, plock, pwgen, rgen,
                   bn, used>>

\* A WriteTag that reports the failure of Encode.
TagReturn_EncodeErr(segErr, encErr) == IF segErr \/ encErr THEN "err" ELSE "nil"

\* What WriteTag returns: the error of segment.WriteTag, or nil.
TagReturn(segErr, encErr) == IF segErr THEN "err" ELSE "nil"

\* The cache map after the tag record was written at pos:
\* wal.cache.Tags[key] = Position{wal.index, segPos} when truncErr == nil.
CacheAfter(cache, truncErr, t, pos) ==
    IF truncErr THEN cache
    ELSE [u \in DOMAIN cache \cup {t} |-> IF u = t THEN pos ELSE cache[u]]

\* segPos := wal.segment.Pos(); err := wal.segment.WriteTag(tag).  On an
\* error WriteTag returns it; with truncErr != nil it returns nil here.
TagSegment(ok) ==
    /\ wpc = "t_trunc"
    /\ IF ok
       THEN /\ files' = SegAppend(files, w.index, w.off, TagFrame(lastOp.tag))
            /\ w' = [w EXCEPT !.size = @ + FrameLen(TagLen(lastOp.tag)),
                              !.off = @ + FrameLen(TagLen(lastOp.tag))]
            /\ hist' = Append(hist, HistEntry(TagFrame(lastOp.tag), w.index))
            /\ tagPos' = [tagPos EXCEPT ![lastOp.tag] = WriterPos(w)]
       ELSE UNCHANGED <<files, w, hist, tagPos>>
    /\ wpc' = IF ok /\ ~lastOp.truncErr THEN "t_seg" ELSE "idle"
    /\ lastOp' = [lastOp EXCEPT !.pos = WriterPos(w), !.segErr = ~ok,
                                !.done = ~ok \/ lastOp.truncErr,
                                !.ret = TagReturn(~ok, FALSE)]
    /\ UNCHANGED <<tagsFile, werr, pruned, nops, posLog, cap, nsess, prevEnd,
                   crashed, readVars, wreq, rpc, plock, pwgen, rgen, bn, used>>

\* With truncErr == nil: the cache map, cacheEnc.Encode(&wal.cache), which
\* writes the document at the offset of the handle, and, when that
\* succeeded, cacheFile.Sync(), whose result is dropped; return nil.
TagEncode(ok, syncOk) ==
    /\ wpc = "t_seg"
    /\ \E cache \in {CacheAfter(w.cache, lastOp.truncErr, lastOp.tag, lastOp.pos)} :
          /\ w' = [w EXCEPT !.cache = cache,
                            !.cacheOff = IF ok THEN @ + DocLen(cache) ELSE @]
          /\ tagsFile' = IF ok
                         THEN [doc |-> TRUE, zeros |-> w.cacheOff, tags |-> cache]
                         ELSE tagsFile
    /\ wpc' = "idle"
    /\ lastOp' = [lastOp EXCEPT !.encErr = ~ok, !.syncErr = ok /\ ~syncOk,
                                !.done = TRUE,
                                !.ret = TagReturn(FALSE, ~ok)]
    /\ UNCHANGED <<files, hist, werr, pruned, nops, tagPos, posLog, cap, nsess,
                   prevEnd, crashed, readVars, wreq, rpc, plock, pwgen, rgen,
                   bn, used>>

TagSpecNext ==
    \/ \E n \in DataLens : TagWrite(n)
    \/ \E t \in Tags, ok \in BOOLEAN : TagTruncate(t, ok)
    \/ \E ok \in BOOLEAN : TagSegment(ok)
    \/ \E ok, syncOk \in BOOLEAN : TagEncode(ok, syncOk)

TagSpec == TagInit /\ [][TagSpecNext]_vars

(***************************************************************************)
(* HandleSpec: the writer session of Spec, then a log reader whose every   *)
(* NewSegmentReader and SegmentReader.Close is followed.  used is the      *)
(* sequence of the segment indices of the handles the reader has opened    *)
(* and not closed, in the order they were opened.                          *)
(***************************************************************************)
\* seg.Close() of a reader on segment i: the handle opened last on i.
CloseOne(hs, i) ==
    IF \E k \in 1..Len(hs) : hs[k] = i
    THEN LET k == Max({j \in 1..Len(hs) : hs[j] = i})
         IN  SubSeq(hs, 1, k - 1) \o SubSeq(hs, k + 1, Len(hs))
    ELSE hs

\* Reset: wal.seg.Close() when there is one, then NewSegmentReader(first).
ResetHandles(r, fs, hs) ==
    LET closed == IF r.seg # NoSeg THEN CloseOne(hs, r.seg.idx) ELSE hs
    IN  IF FirstSeg(fs) = -1 THEN closed ELSE Append(closed, FirstSeg(fs))

\* Seek(p): NewSegmentReader(p.Segment), then wal.seg.Close().
SeekHandles(r, fs, p, hs) ==
    IF p.Segment \notin DOMAIN fs THEN hs
    ELSE Append(CloseOne(hs, r.seg.idx), p.Segment)

\* The loop of SeekTag: NewSegmentReader for every index from that of first
\* up to the first one without a file; no Close.
RECURSIVE SeekTagHandles(_, _, _)
SeekTagHandles(fs, index, hs) ==
    IF index \notin DOMAIN fs THEN hs
    ELSE CHOOSE x \in {SeekTagHandles(fs, index + 1, h2) :
                          h2 \in {Append(hs, index)}} : TRUE

\* The loop of Next: NewSegmentReader for every following segment until one
\* has a record; a segment without one is left as it is.
RECURSIVE NextLoopHandles(_, _, _, _)
NextLoopHandles(index, last, fs, hs) ==
    LET i == index + 1 IN
    IF i > last \/ i \notin DOMAIN fs THEN hs
    ELSE IF SegNext(fs[i], 0).ok THEN Append(hs, i)
    ELSE CHOOSE x \in {NextLoopHandles(i, last, fs, h2) :
                          h2 \in {Append(hs, i)}} : TRUE

\* Next: r.seg.Close() when the current segment has no further record, then
\* the loop.
NextHandles(r, fs, hs) ==
    IF r.seg = NoSeg THEN hs
    ELSE IF SegNext(Content(fs, r.seg.idx), r.seg.pos).ok THEN hs
    ELSE NextLoopHandles(r.index, r.last, fs, CloseOne(hs, r.seg.idx))

\* WALReader.Close: r.seg.Close() when there is one.
CloseHandles(r, hs) == IF r.seg = NoSeg THEN hs ELSE CloseOne(hs, r.seg.idx)

\* r, _ := NewReader(path)
HOpenReader ==
    /\ mode = "none"
    /\ rd' = NewReader(files).r
    /\ used' = ResetHandles(NoReader, files, <<>>)
    /\ mode' = "iter"
    /\ UNCHANGED <<logVars, seekTag, seekRes, out, lastNext, wpc, wreq, rpc,
                   plock, pwgen, rgen, bn>>

\* The reader is open and has not been closed.
Reading == mode = "iter"

\* r.Reset()
HReset ==
    /\ Reading /\ Len(used) < MaxHandles
    /\ rd' = Reset(rd, files).r
    /\ used' = ResetHandles(rd, files, used)
    /\ lastNext' = "none"
    /\ UNCHANGED <<logVars, mode, seekTag, seekRes, out, wpc, wreq, rpc, plock,
                   pwgen, rgen, bn>>

\* pos, _ := r.SeekTag(tag); the Position it returns is not recorded here.
HSeekTag(t) ==
    /\ Reading /\ Len(used) < MaxHandles
    /\ rd' = WALSeekTag(rd, files, t).r
    /\ used' = SeekTagHandles(files, rd.first, used)
    /\ UNCHANGED <<logVars, mode, seekTag, seekRes, out, lastNext, wpc, wreq, rpc,
                   plock, pwgen, rgen, bn>>

\* err := r.Seek(pos), pos being a Position that wal.Pos() returned; the
\* reader has a segment (with none, wal.seg.Close() is a nil dereference).
HSeek ==
    /\ Reading /\ rd.seg # NoSeg /\ Len(used) < MaxHandles
    /\ \E c \in posLog :
          /\ rd' = WALSeek(rd, files, c.pos).r
          /\ used' = SeekHandles(rd, files, c.pos, used)
    /\ UNCHANGED <<logVars, mode, seekTag, seekRes, out, lastNext, wpc, wreq, rpc,
                   plock, pwgen, rgen, bn>>

\* r.Next(); the values it yields are not recorded here.
HNext ==
    /\ Reading
    /\ \E res \in {WALReaderNext(rd, files)} :
          /\ rd' = res.r
          /\ lastNext' = IF res.ok THEN "true" ELSE "false"
    /\ used' = NextHandles(rd, files, used)
    /\ UNCHANGED <<logVars, mode, seekTag, seekRes, out, wpc, wreq, rpc, plock,
                   pwgen, rgen, bn>>

\* r.Close()
HClose ==
    /\ Reading
    /\ rd' = [rd EXCEPT !.open = FALSE]
    /\ used' = CloseHandles(rd, used)
    /\ mode' = "closed"
    /\ UNCHANGED <<logVars, seekTag, seekRes, out, lastNext, wpc, wreq, rpc,
                   plock, pwgen, rgen, bn>>

\* The options of the logs of HandleSpec: segments of 20 bytes, two kept or
\* all of them.
HandleOptions ==
    {[SegmentSize |-> 20, MaxSegments |-> 2],
     [SegmentSize |-> 20, MaxSegments |-> 10]}

HandleInit ==
    /\ \E o \in HandleOptions :
          \E nw \in {NewWithOptions(<<>>, o)} : w = nw.w /\ files = nw.files
    /\ tagsFile = EmptyTagsFile
    /\ hist = <<>> /\ werr = FALSE /\ pruned = FALSE /\ nops = 0
    /\ FreshAux
    /\ rd = NoReader /\ mode = "none" /\ seekTag = "" /\ seekRes = NonePos
    /\ out = <<>> /\ lastNext = "none"
    /\ wpc = "idle" /\ wreq = NoReq
    /\ rpc = "idle" /\ plock = "none" /\ pwgen = 0 /\ rgen = 0
    /\ bn = NoCall
    /\ used = <<>>

HandleNext ==
    \/ \E n \in DataLens : Write(n)
    \/ \E t \in Tags : WriteTag(t)
    \/ Close
    \/ HOpenReader
    \/ HReset
    \/ \E t \in Tags : HSeekTag(t)
    \/ HSeek
    \/ HNext
    \/ HClose

HandleSpec == HandleInit /\ [][HandleNext]_vars

(***************************************************************************)
(* Properties of Spec.                                                     *)
(***************************************************************************)
\* The session wrote without an error and without losing a segment.
Intact == ~werr /\ ~pruned

\* C1: after writes that all returned nil, with no segment pruned, a reader
\* opened after Close and iterated with Next yields the data payloads in
\* write order (tags never), and Next returns false exactly when all of
\* them have been yielded.
C1_ReaderYieldsWritesInOrder ==
    (mode = "iter" /\ ~w.open /\ Intact) =>
        /\ IsPrefix(out, Ids(hist))
        /\ lastNext = "false" => out = Ids(hist)

C1_Witness ==
    /\ mode = "iter" /\ ~w.open /\ Intact
    /\ lastNext = "false"
    /\ Len(out) >= 3
    /\ w.index >= 1
    /\ \E i \in 1..Len(hist) : hist[i].typ = "t"

\* The tag was written in this session.
TagWritten(t) == \E i \in 1..Len(hist) : hist[i].typ = "t" /\ hist[i].tag = t

\* What was written after the most recent record of tag t.
AfterLastTag(t) ==
    LET i == Max({j \in 1..Len(hist) : hist[j].typ = "t" /\ hist[j].tag = t})
    IN  SubSeq(hist, i + 1, Len(hist))

\* C8: after SeekTag(T) on a fresh reader, for a tag T that was written,
\* iterating with Next yields exactly the data records written after the
\* last T: each once, in order, and nothing written before it.
C8_SeekTagThenNextYieldsSuffix ==
    (mode = "seektag" /\ TagWritten(seekTag) /\ Intact) =>
        /\ IsPrefix(out, Ids(AfterLastTag(seekTag)))
        /\ lastNext = "false" => out = Ids(AfterLastTag(seekTag))

\* C9: when the most recent record of the log is the tag record, the first
\* Next on the reader BeginRecovery returned is false: nothing is yielded.
C9_RecoveryAtEndYieldsNothing ==
    (/\ mode = "recovery" /\ Intact
     /\ hist # <<>>
     /\ hist[Len(hist)].typ = "t" /\ hist[Len(hist)].tag = seekTag)
        => out = <<>>

\* The data records of the segments that are still on disk, in write order.
RECURSIVE OnDisk(_, _)
OnDisk(h, fs) ==
    IF h = <<>> THEN <<>>
    ELSE IF Head(h).seg \in DOMAIN fs THEN <<Head(h)>> \o OnDisk(Tail(h), fs)
    ELSE OnDisk(Tail(h), fs)

\* C10: for a tag that was never written SeekTag returns (-1,-1), and the
\* reader BeginRecovery returns is reset to the first segment: iterating it
\* yields all the data records of the log from the beginning, in order.
C10_RecoveryWithoutTagYieldsAll ==
    (mode = "recovery" /\ ~TagWritten(seekTag)) =>
        /\ seekRes = NonePos
        /\ lastNext = "none" =>
              rd.index = FirstSeg(files) /\ rd.seg = OpenSeg(FirstSeg(files))
        /\ IsPrefix(out, Ids(OnDisk(hist, files)))
        /\ lastNext = "false" => out = Ids(OnDisk(hist, files))

C10_Witness ==
    /\ mode = "recovery" /\ ~TagWritten(seekTag)
    /\ seekRes = NonePos
    /\ lastNext = "false"
    /\ Len(out) >= 2
    /\ Cardinality(DOMAIN files) >= 2
    /\ hist # <<>> /\ hist[Len(hist)].typ = "t"

\* The segment that holds the most recent record of tag t.
LastTagSeg(t) ==
    hist[Max({j \in 1..Len(hist) : hist[j].typ = "t" /\ hist[j].tag = t})].seg

\* C11: in one writer session on a fresh log, for a tag T written one or
\* more times whose most recent record is in a segment still on disk,
\* SeekTag(T) on a reader opened afterwards (directly or by BeginRecovery)
\* returns the Position the writer's Pos() reported right before the most
\* recent WriteTag(T), in whichever segment, with older segments pruned or
\* not.
C11_SeekTagReturnsPosBeforeLastTag ==
    (/\ mode \in {"seektag", "recovery"}
     /\ TagWritten(seekTag)
     /\ LastTagSeg(seekTag) \in DOMAIN files)
        => seekRes = tagPos[seekTag]

C11_Witness ==
    /\ mode = "seektag" /\ TagWritten(seekTag)
    /\ seekRes = tagPos[seekTag]
    /\ seekRes.Segment >= 1 /\ seekRes.Offset > 0
    /\ pruned
    /\ Cardinality({j \in 1..Len(hist) :
                       hist[j].typ = "t" /\ hist[j].tag = seekTag}) >= 2

\* The payload ids of the data records in segment file s.
DataIds(s) == {s[k].id : k \in {j \in 1..Len(s) : s[j].typ = "d"}}

\* The directory after a rotation to index idx by a writer that keeps
\* maxSegments segments, from a directory that held the segments of dom.
Kept(dom, idx, maxSegments) == {i \in dom \cup {idx} : i > idx - maxSegments}

\* C13: a Write(data) that finds len(data) + 7 + Size() > SegmentSize closes
\* the active segment, opens segment index+1 and prunes, and when it returns
\* the first record of the new active segment is data, which is in no
\* older segment.
C13_RotationBeforeOverflowingRecord ==
    (lastOp.op = "Write" /\ lastOp.rotate) =>
        /\ w.index = lastOp.index + 1
        /\ lastOp.index \in DOMAIN files =>
              /\ files[lastOp.index] # <<>>
              /\ files[lastOp.index][Len(files[lastOp.index])] = Magic
        /\ DOMAIN files = Kept(lastOp.dom, w.index, w.opts.MaxSegments)
        /\ files[w.index] # <<>>
        /\ files[w.index][1].typ = "d" /\ files[w.index][1].id = lastOp.id
        /\ \A i \in DOMAIN files \ {w.index} : lastOp.id \notin DataIds(files[i])

\* C14: with MaxSegments >= 1, after every Write, whether it returned nil or
\* an error, the directory holds at most MaxSegments segment files, they
\* are the highest-numbered ones up to the writer's active index, and
\* nothing was removed but the files below that window.
C14_PruningKeepsNewestSegments ==
    (lastOp.op = "Write" /\ w.opts.MaxSegments >= 1) =>
        /\ Cardinality(DOMAIN files) <= w.opts.MaxSegments
        /\ Max(DOMAIN files) = w.index
        /\ DOMAIN files = Kept(lastOp.dom, w.index, w.opts.MaxSegments)

C14_Witness ==
    /\ lastOp.op = "Write" /\ lastOp.rotate /\ lastOp.err
    /\ w.opts.MaxSegments = 2
    /\ DOMAIN files = {2, 3}

\* C16: after every WriteTag the file <root>/tags holds one JSON document
\* and nothing else, and the document maps every tag written since the
\* writer was opened to the Position that Pos() reported right before the
\* most recent WriteTag of that tag.
C16_TagsFileHoldsOneDocument ==
    lastOp.op = "WriteTag" =>
        /\ tagsFile.doc /\ tagsFile.zeros = 0
        /\ DOMAIN tagsFile.tags = {t \in Tags : TagWritten(t)}
        /\ \A t \in DOMAIN tagsFile.tags : tagsFile.tags[t] = tagPos[t]

\* C28: every entry of the cache map, and of the document in the tags file,
\* is a position in a segment file that exists.
C28_TagCachePointsToExistingSegments ==
    /\ \A t \in DOMAIN w.cache : w.cache[t].Segment \in DOMAIN files
    /\ tagsFile.doc =>
           \A t \in DOMAIN tagsFile.tags : tagsFile.tags[t].Segment \in DOMAIN files

\* C35: right after SeekTag has returned a position p other than (-1,-1),
\* the reader is at p: Pos() is p, its index is p.Segment and its segment
\* reader is the one of segment p.Segment.
C35_SeekTagPositionsReader ==
    (mode = "seektag" /\ lastNext = "none" /\ seekRes # NonePos) =>
        /\ WALReaderPos(rd) = seekRes
        /\ rd.index = seekRes.Segment
        /\ rd.seg.idx = seekRes.Segment

\* The offset just past the last record of a segment file holding s.
EndOfRecords(s) == IF s = <<>> THEN 0 ELSE OffsetOf(s, ScanEnd(s, 1))

\* C36: once Next has returned false at the end of the log, Pos() is
\* (last, the offset just past the final record of segment last), which is
\* what the writer's Pos() reports for the next record.
C36_PosAtEndOfLog ==
    (mode = "iter" /\ lastNext = "false" /\ ReaderError(rd) \in {"nil", "EOF"}) =>
        /\ WALReaderPos(rd) = [Segment |-> rd.last,
                               Offset |-> EndOfRecords(files[rd.last])]
        /\ w.open => WALReaderPos(rd) = WriterPos(w)

\* C34: with MaxSegments >= 1 no Write returns an error: each one appends
\* its record, and the writer's first index is the lowest segment index on
\* disk, so pruning never removes a file that is already gone.
C34_WriteNeverFailsOnPrune ==
    w.opts.MaxSegments >= 1 =>
        /\ ~werr
        /\ lastOp.op = "Write" =>
              /\ ~lastOp.err
              /\ hist # <<>> /\ hist[Len(hist)].id = lastOp.id
              /\ lastOp.id \in DataIds(files[w.index])
        /\ w.first = Min(DOMAIN files)

(***************************************************************************)
(* Properties of ReopenSpec.                                               *)
(***************************************************************************)
\* Every writer so far ended with Close, the last one included, and no
\* Write returned an error.
AllClosed == ~w.open /\ lastOp.op = "Close" /\ ~crashed /\ ~werr

\* What was written after the Position the reader was given.
AfterCap == SubSeq(hist, cap.at + 1, Len(hist))

\* C12: for a Position p that the writer's Pos() returned after writing a
\* prefix W, a reader opened after the writer closed that calls Seek(p)
\* and iterates yields exactly the data records written after p, in order,
\* those of later segments included.
C12_SeekThenNextYieldsRest ==
    (mode = "seek" /\ AllClosed) =>
        /\ IsPrefix(out, Ids(AfterCap))
        /\ lastNext = "false" => out = Ids(AfterCap)

\* C15: a writer opened after the previous one was closed continues in the
\* highest segment on disk: its active index is that segment's, a rotation
\* goes to the next higher index, and, with no segment pruned, a reader
\* opened after the last Close yields the records of all the writers in
\* the order they were written.
C15_ReopenContinuesHighestSegment ==
    /\ (lastOp.op = "Open" /\ prevEnd = "close") =>
           w.index = Max(lastOp.dom) /\ w.index \in DOMAIN files
    /\ (lastOp.op = "Write" /\ lastOp.rotate) =>
           w.index = lastOp.index + 1 /\ w.index = Max(DOMAIN files)
    /\ (mode = "iter" /\ AllClosed /\ ~pruned) =>
           /\ IsPrefix(out, Ids(hist))
           /\ lastNext = "false" => out = Ids(hist)

C15_Witness ==
    /\ mode = "iter" /\ AllClosed /\ ~pruned /\ nsess = 2
    /\ lastNext = "false" /\ Len(out) = 3
    /\ w.index = 1
    /\ \E i, j \in 1..Len(hist) :
          /\ hist[i].typ = "d" /\ hist[i].seg = 0 /\ hist[i].sess = 1
          /\ hist[j].typ = "d" /\ hist[j].seg = 0 /\ hist[j].sess = 2

C30_ReopenAfterPruning ==
    /\ (lastOp.op = "Open" /\ prevEnd = "close" /\ pruned) =>
           /\ w.index = Max(lastOp.dom)
           /\ DOMAIN files = lastOp.dom
    /\ (mode = "iter" /\ AllClosed /\ pruned /\ nsess = 2) =>
           /\ rd.first = Min(DOMAIN files)
           /\ lastNext = "none" => rd.seg = OpenSeg(Min(DOMAIN files))
           /\ IsPrefix(out, Ids(OnDisk(hist, files)))
           /\ lastNext = "false" => out = Ids(OnDisk(hist, files))

\* A segment with a record of the first writer has been pruned; the reader
\* has yielded a record of the first writer and then one of the second, and
\* Next has returned false.
C30_Witness ==
    /\ mode = "iter" /\ AllClosed /\ pruned /\ nsess = 2
    /\ lastNext = "false" /\ Len(out) = 2
    /\ \E i, j \in 1..Len(hist) :
          /\ hist[i].typ = "d" /\ hist[i].sess = 1 /\ hist[i].seg \notin DOMAIN files
          /\ hist[j].typ = "d" /\ hist[j].sess = 1 /\ hist[j].id = out[1]
    /\ \E k \in 1..Len(hist) :
          hist[k].typ = "d" /\ hist[k].sess = 2 /\ hist[k].id = out[2]

\* A record that does not decode: cut short, or bytes that are no frame.
Corrupt(f) == f.typ \in {"torn", "junk"}

\* What a reader that halts at the first corrupt record yields from segment
\* i on: the data records up to that record, segment after segment.
RECURSIVE HaltIds(_, _)
HaltIds(fs, i) ==
    IF i \notin DOMAIN fs THEN <<>>
    ELSE LET s    == fs[i]
             kend == ScanEnd(s, 1)
             here == Ids(SubSeq(s, 1, kend - 1))
         IN  IF kend <= Len(s) /\ Corrupt(s[kend]) THEN here
             ELSE here \o HaltIds(fs, i + 1)

\* Some segment on disk holds a corrupt record.
CorruptLog == \E i \in DOMAIN files : \E k \in 1..Len(files[i]) : Corrupt(files[i][k])

\* C19: when the log reader meets a corrupt record, iteration halts: the
\* reader yields no record that lies after it, in that segment or a later
\* one, and once Next has returned false Error() returns an error.
C19_CorruptRecordHaltsIteration ==
    (mode = "iter" /\ ~w.open) =>
        /\ IsPrefix(out, HaltIds(files, FirstSeg(files)))
        /\ (lastNext = "false" /\ CorruptLog) => ReaderError(rd) # "nil"

(***************************************************************************)
(* PairSpec: NewPair(path), then a producer goroutine calling Write and    *)
(* WriteTag on the PairedWriter and a consumer goroutine calling Next and  *)
(* BlockingNext on the PairedReader.  plock is PairedWriter.lock.  Write   *)
(* also takes WALWriter.lock, as WriteTag does; with one producer that     *)
(* lock is never contended and it is not a variable.  A segment write is   *)
(* the two file writes of the segment writer, header then payload: Write   *)
(* does both under plock, WriteTag (promoted from the embedded WALWriter)  *)
(* under WALWriter.lock only.                                              *)
(***************************************************************************)
PairInit ==
    /\ LET nw == NewWithOptions(<<>>, DefaultWriteOptions) IN
          /\ w = nw.w
          /\ files = nw.files
          /\ rd = NewReader(nw.files).r
    /\ tagsFile = EmptyTagsFile
    /\ hist = <<>> /\ werr = FALSE /\ pruned = FALSE /\ nops = 0
    /\ FreshAux
    /\ mode = "pair" /\ seekTag = "" /\ seekRes = NonePos
    /\ out = <<>> /\ lastNext = "none"
    /\ IdlePair

\* cond.Broadcast: a consumer waiting on the condition is woken and has to
\* take the mutex again.
Broadcast(pc) == IF pc = "b_wait" THEN "b_lock" ELSE pc

\* The producer calls w.Write(d).
PWCall(n) ==
    /\ wpc = "idle" /\ nops < MaxPairOps
    /\ wpc' = "w_lock"
    /\ wreq' = [op |-> "Write", n |-> n, t |-> ""]
    /\ nops' = nops + 1
    /\ UNCHANGED <<files, tagsFile, w, hist, werr, pruned, auxVars, readVars,
                   rpc, plock, pwgen, rgen, bn, used>>

\* PairedWriter.Write: r.lock.Lock()
PWLock ==
    /\ wpc = "w_lock" /\ plock = "none"
    /\ plock' = "w"
    /\ wpc' = "w_in"
    /\ UNCHANGED <<logVars, readVars, wreq, rpc, pwgen, rgen, bn, used>>

\* A generation that counts the failed Writes too.
GenAfter_CountsFailures(gen, err) == gen + 1

\* PairedWriter.Write: r.gen++ is reached only when the log Write returned nil.
GenAfter(gen, err) == IF err THEN gen ELSE gen + 1

\* PairedWriter.Write: the log Write, then gen++, Broadcast, Unlock; on an
\* error it returns with the mutex still held.
PWDo ==
    /\ wpc = "w_in"
    /\ \E res \in {WALWrite(w, files, nops, wreq.n)} :
          /\ w' = res.w
          /\ files' = res.files
          /\ werr' = (werr \/ res.err)
          /\ pruned' = (pruned \/ Removed(files, res.files))
          /\ hist' = IF res.err THEN hist
                     ELSE Append(hist, HistEntry(DataFrame(nops, wreq.n), res.w.index))
          /\ pwgen' = GenAfter(pwgen, res.err)
          /\ rpc' = IF res.err THEN rpc ELSE Broadcast(rpc)
          /\ plock' = IF res.err THEN plock ELSE "none"
    /\ wpc' = "idle"
    /\ wreq' = NoReq
    /\ UNCHANGED <<tagsFile, nops, auxVars, readVars, rgen, bn, used>>

\* The producer calls w.WriteTag(tag): WALWriter.WriteTag up to the first
\* file write of the tag record, its header.
PTagCall(t) ==
    /\ wpc = "idle" /\ nops < MaxPairOps
    /\ wpc' = "t_mid"
    /\ wreq' = [op |-> "WriteTag", n |-> 0, t |-> t]
    /\ nops' = nops + 1
    /\ files' = SegAppend(files, w.index, w.off, TornFrame(TagFrame(t)))
    /\ tagsFile' = [tagsFile EXCEPT !.doc = FALSE, !.zeros = 0]
    /\ used' = used \cup {"WriteTag"}
    /\ UNCHANGED <<w, hist, werr, pruned, auxVars, readVars, rpc, plock, pwgen,
                   rgen, bn>>

\* WALWriter.WriteTag: the payload of the tag record, then the cache.
PTagDone ==
    /\ wpc = "t_mid"
    /\ \E res \in {WALWriteTag(w, [files EXCEPT ![w.index] = SubSeq(@, 1, Len(@) - 1)],
                                wreq.t)} :
          /\ w' = res.w
          /\ files' = res.files
          /\ tagsFile' = res.tagsFile
    /\ hist' = Append(hist, HistEntry(TagFrame(wreq.t), w.index))
    /\ wpc' = "idle"
    /\ wreq' = NoReq
    /\ UNCHANGED <<werr, pruned, nops, auxVars, readVars, rpc, plock, pwgen, rgen,
                   bn, used>>

\* The records written through the pair so far.
Written == Ids(hist)

\* No Write has rotated: the producer is still in the segment that the
\* reader's range [first, last] was taken from.
Unrotated == w.index = rd.last

\* The consumer calls r.Next().
PRCallNext ==
    /\ rpc = "idle"
    /\ rpc' = "n_lock"
    /\ bn' = [bn EXCEPT !.active = FALSE]
    /\ used' = used \cup {"Next"}
    /\ UNCHANGED <<logVars, readVars, wpc, wreq, plock, pwgen, rgen>>

\* The consumer calls r.BlockingNext().
PRCallBlockingNext ==
    /\ rpc = "idle"
    /\ rpc' = "b_lock"
    /\ bn' = [active |-> TRUE, returned |-> FALSE,
              caughtUp |-> (Len(out) = Len(Written)),
              atCall |-> pwgen, atReturn |-> pwgen]
    /\ used' = used \cup {"BlockingNext"}
    /\ UNCHANGED <<logVars, readVars, wpc, wreq, plock, pwgen, rgen>>

\* BlockingNext: Lock; with r.gen == r.pw.gen, cond.Wait (which releases the
\* mutex); otherwise r.gen = r.pw.gen, Unlock, and on to r.Next().
PRGenCheck ==
    /\ rpc = "b_lock" /\ plock = "none"
    /\ IF rgen = pwgen
       THEN rpc' = "b_wait" /\ rgen' = rgen
       ELSE rpc' = "n_lock" /\ rgen' = pwgen
    /\ UNCHANGED <<logVars, readVars, wpc, wreq, plock, pwgen, bn, used>>

\* PairedReader.Next: r.pw.lock.Lock()
PRLock ==
    /\ rpc = "n_lock" /\ plock = "none"
    /\ plock' = "r"
    /\ rpc' = "n_in"
    /\ UNCHANGED <<logVars, readVars, wpc, wreq, pwgen, rgen, bn, used>>

\* PairedReader.Next: r.WALReader.Next() and the deferred Unlock; when the
\* call came from BlockingNext, that returns nil or ErrNoData.
PRDo ==
    /\ rpc = "n_in"
    /\ \E res \in {WALReaderNext(rd, files)} :
          /\ rd' = res.r
          /\ out' = IF res.ok THEN Append(out, res.id) ELSE out
          /\ lastNext' = IF res.ok THEN "true" ELSE "false"
    /\ plock' = "none"
    /\ rpc' = "idle"
    /\ bn' = IF bn.active
             THEN [bn EXCEPT !.active = FALSE, !.returned = TRUE, !.atReturn = pwgen]
             ELSE bn
    /\ UNCHANGED <<logVars, mode, seekTag, seekRes, wpc, wreq, pwgen, rgen, used>>

Producer ==
    \/ \E n \in PairLens : PWCall(n)
    \/ PWLock
    \/ PWDo
    \/ \E t \in Tags : PTagCall(t)
    \/ PTagDone

Consumer ==
    \/ PRCallNext
    \/ PRCallBlockingNext
    \/ PRGenCheck
    \/ PRLock
    \/ PRDo

PairNext == Producer \/ Consumer

PairSpec == PairInit /\ [][PairNext]_vars

\* Go's mutex and scheduler let neither goroutine starve.
PairFair == PairSpec /\ WF_vars(Producer) /\ WF_vars(Consumer)

(***************************************************************************)
(* PairOldSpec: NewPair on the directory an earlier writer left.           *)
(***************************************************************************)
\* The writer and the directory after k more Writes of MaxSegmentSize bytes.
RECURSIVE WriteMany(_, _)
WriteMany(x, k) ==
    IF k = 0 THEN x
    ELSE CHOOSE y \in {WriteMany(res, k - 1) :
                         res \in {WALWrite(x.w, x.files, 0, MaxSegmentSize)}} : TRUE

\* The directory a writer with the default options leaves when it has
\* written MaxSegments records of MaxSegmentSize bytes and called Close:
\* every Write rotated, and the last one removed segment 0.
OldDir ==
    LET x == WriteMany(NewWithOptions(<<>>, DefaultWriteOptions),
                        DefaultWriteOptions.MaxSegments)
    IN  WALClose(x.w, x.files).files

PairOldInit ==
    /\ \E dir \in {OldDir} :
          \E nw \in {NewWithOptions(dir, DefaultWriteOptions)} :
             /\ w = nw.w
             /\ files = nw.files
             /\ rd = NewReader(nw.files).r
    /\ tagsFile = EmptyTagsFile
    /\ hist = <<>> /\ werr = FALSE /\ pruned = FALSE /\ nops = 0
    /\ FreshAux
    /\ mode = "pair" /\ seekTag = "" /\ seekRes = NonePos
    /\ out = <<>> /\ lastNext = "none"
    /\ IdlePair

PairOldSpec == PairOldInit /\ [][PairNext]_vars

PairOldFair == PairOldSpec /\ WF_vars(Producer) /\ WF_vars(Consumer)

(***************************************************************************)
(* Properties of the pair.                                                 *)
(***************************************************************************)
\* C2: in every interleaving the values handed to the reader, by Next
\* returning true or BlockingNext returning nil, are a prefix of the values
\* written so far.
C2_ReadsArePrefixOfWrites == IsPrefix(out, Written)

C2_Witness ==
    /\ Len(out) >= 2
    /\ {"Next", "BlockingNext"} \subseteq used
    /\ wpc = "w_in" /\ rpc = "n_lock"

\* C3: with the producer writing a finite sequence of records and the
\* consumer calling BlockingNext only, the values observed eventually are,
\* and stay, the whole sequence written (stated for the runs in which no
\* Write rotates).
C3_BlockingNextEventuallyReadsAll ==
    <>[]((used \subseteq {"BlockingNext"} /\ Unrotated) => out = Written)

\* C4: for a consumer that polls with Next only, a record that has been
\* written and not yet read is returned by the next call of Next, whatever
\* earlier calls of Next returned (stated for the states in which no Write
\* has rotated).
C4_PollingNextSeesLaterWrites ==
    (/\ rpc = "idle" /\ wpc = "idle"
     /\ used \subseteq {"Next"} /\ Unrotated
     /\ ReaderError(rd) = "nil"
     /\ Len(out) < Len(Written))
        => WALReaderNext(rd, files).ok

\* C5: BlockingNext waits on the condition only when there is no more data:
\* never while a record written through the pair is still unread (stated for
\* a consumer that calls BlockingNext only, while no Write has rotated).
C5_BlocksOnlyWithoutData ==
    (rpc = "b_wait" /\ used \subseteq {"BlockingNext"} /\ Unrotated)
        => Len(out) = Len(Written)

\* C6: a BlockingNext called when the reader had been given every record
\* written so far returns only after a further paired Write has completed.
C6_CaughtUpBlockingNextWaitsForWrite ==
    (bn.returned /\ bn.caughtUp) => bn.atReturn > bn.atCall

\* C7: while PairedReader.Next is reading, no Write or WriteTag of the
\* PairedWriter is appending to a segment file.
C7_NextExcludesAppends ==
    ~(rpc = "n_in" /\ wpc \in {"w_in", "t_mid"})

\* C24: (under PairOldFair) a BlockingNext call that is in progress while
\* the writer's generation is ahead of the reader's, because a paired Write
\* completed before the call took the mutex or while it was in cond.Wait,
\* eventually returns.
C24_BlockedReaderWokenByWrite ==
    (bn.active /\ pwgen > rgen) ~> ~bn.active

\* C25: in every state of the pair the reader's generation is at most the
\* writer's, and the writer's is the number of paired Writes that returned
\* nil; no step decreases it, and the step in which a Write returns an error
\* leaves it as it was.
C25_GenerationCountsCompletedWrites ==
    /\ [](rgen <= pwgen /\ pwgen = Len(Written))
    /\ [][pwgen' >= pwgen /\ ((werr' /\ ~werr) => pwgen' = pwgen)]_vars

\* A paired Write has returned an error after another one returned nil and
\* BlockingNext took over its generation.
C25_Witness ==
    werr /\ pwgen >= 1 /\ rgen = pwgen

\* C33: PairedWriter.Write releases the pair's mutex on every return path:
\* whenever the producer is between two calls, whether the last Write
\* returned nil or an error, the mutex is not held by the writer.
C33_WriteReleasesMutex ==
    wpc = "idle" => plock # "w"

(***************************************************************************)
(* Properties of SegSpec.                                                  *)
(***************************************************************************)
\* Total on-disk length of the data and tag records of segment file s.
RECURSIVE RecordBytesTo(_, _)
RecordBytesTo(s, k) ==
    IF k <= 0 THEN 0
    ELSE (IF s[k].typ \in {"d", "t"} THEN DiskLen(s[k]) ELSE 0)
         + RecordBytesTo(s, k - 1)

RecordBytes(s) == RecordBytesTo(s, Len(s))

\* C17: after any sequence of open, Write, WriteTag, Close and re-open of a
\* segment writer, Size() and Pos() are the total on-disk length of the
\* records of the file, without the closing magic, which is the offset at
\* which the next record is written; a reader that Seeks to a captured
\* Pos() starts at the record written next.
C17_SizeIsOffsetOfNextRecord ==
    /\ (w.open /\ ~crashed /\ cap = NoCap) =>
           w.size = RecordBytes(files[0]) /\ w.size = w.off
    /\ (mode = "segseek" /\ lastOp.op = "Close" /\ ~crashed) =>
           /\ IsPrefix(out, Ids(AfterCap))
           /\ lastNext = "false" => out = Ids(AfterCap)

\* C18: Clean() of a segment writer is true if and only if there was a
\* writer of the file before it and that writer's last operation was a
\* successful Close.
C18_CleanIffPreviousWriterClosed ==
    w.open => (w.clean <=> (nsess >= 2 /\ prevEnd = "close"))

\* The records written before the Position the file was truncated to.
BeforeCap == SubSeq(hist, 1, cap.at)

\* C20: with pos = Pos() captured between the records W and the records B,
\* Truncate(pos) followed by Close leaves a segment from which a reader
\* yields exactly W and then Next returns false: no record of B.
C20_TruncateDropsLaterRecords ==
    (mode = "segiter" /\ lastOp.op = "Close" /\ lastOp.truncated /\ ~crashed) =>
        /\ IsPrefix(out, Ids(BeforeCap))
        /\ lastNext = "false" => out = Ids(BeforeCap)

\* C31: in the segment file the closing magic occurs only as the last
\* element, hence at most once, and no record follows it: a writer that
\* re-opens a clean file writes over the trailer.
C31_MagicOnlyAtEnd ==
    \A k \in 1..Len(files[0]) :
        files[0][k].typ = "magic" => k = Len(files[0])

(***************************************************************************)
(* Properties of CodecSpec.                                                *)
(***************************************************************************)
\* The data payloads written, in order.
RECURSIVE DataOf(_)
DataOf(h) ==
    IF h = <<>> THEN <<>>
    ELSE IF Head(h).typ = TypeData THEN <<Head(h).data>> \o DataOf(Tail(h))
    ELSE DataOf(Tail(h))

\* The CRC of a payload's frame, recomputed from the payload: over the
\* varint of the compressed length and the compressed payload.
FrameCrc(d) == Crc32(PutUvarint(Len(SnappyEncode(d))) \o SnappyEncode(d))

\* C21: record framing round-trips: every data record written is decoded
\* with type 'd' and its payload unchanged, the CRC stored in its frame is
\* the CRC recomputed over the varint length bytes and the compressed
\* payload, and decoding the file ends with EOF after the last record.
C21_FramingRoundTrips ==
    mode = "codec" =>
        /\ Len(out) <= Len(DataOf(hist))
        /\ \A i \in 1..Len(out) :
              /\ out[i].typ = TypeData
              /\ out[i].data = DataOf(hist)[i]
              /\ out[i].crc = FrameCrc(DataOf(hist)[i])
        /\ lastNext = "false" =>
              Len(out) = Len(DataOf(hist)) /\ rd.seg.err = "EOF"

C21_Witness ==
    /\ mode = "codec" /\ lastNext = "false"
    /\ Len(out) = 2
    /\ out[1].data = Ramp(LongLen)
    /\ out[2].data = <<255, 0>>

(***************************************************************************)
(* Properties of DirSpec.                                                  *)
(***************************************************************************)
\* n is the name of a segment file: the decimal form of an index.
IsSegmentName(n) == Atoi(n).ok /\ Atoi(n).val >= 0 /\ Itoa(Atoi(n).val) = n

C23_CalculateFromTotal ==
    lastOp.op = "CalculateFromTotal" =>
        LET t == lastOp.total
            b == lastOp.before
            a == w.opts
        IN  /\ (b.MaxSegments = 0 /\ t < MaxSegmentSize) =>
                  a.MaxSegments = 1 /\ a.SegmentSize = t
            /\ (b.MaxSegments = 0 /\ t >= MaxSegmentSize) =>
                  /\ a.SegmentSize = MaxSegmentSize
                  /\ (a.MaxSegments - 1) * MaxSegmentSize < t
            /\ b.MaxSegments = 0 => a.SegmentSize * a.MaxSegments >= t
            /\ b.MaxSegments # 0 =>
                  /\ a.MaxSegments = b.MaxSegments
                  /\ a.SegmentSize * a.MaxSegments <= t
                  /\ (a.SegmentSize + 1) * a.MaxSegments > t

C23_Witness ==
    /\ lastOp.op = "CalculateFromTotal"
    /\ lastOp.before.MaxSegments = 0
    /\ lastOp.total = 2 * MaxSegmentSize + 1
    /\ w.opts.MaxSegments = 3

\* C37: between writer operations, through Close, crash and re-open, every
\* segment file below the writer's active index ends with the closing
\* magic, and no file lies above the active index: only the active segment
\* can be dirty.
C37_OlderSegmentsClosedCleanly ==
    /\ \A i \in DOMAIN files : i <= w.index
    /\ \A i \in DOMAIN files :
           i < w.index => files[i] # <<>> /\ files[i][Len(files[i])] = Magic

\* A writer that crashed inside a Write was followed by one that rotated and
\* wrote on: the segment the crash cut is below the active index.
C37_Witness ==
    /\ nsess >= 2 /\ prevEnd = "crash" /\ w.open
    /\ lastOp.op = "Write" /\ lastOp.rotate
    /\ \E i \in DOMAIN files :
           i < w.index /\ \E k \in 1..Len(files[i]) : files[i][k].typ \in {"torn", "junk"}

(***************************************************************************)
(* Properties of HandleSpec.                                               *)
(***************************************************************************)
\* C32: the reader holds at most one open segment handle at any time, and
\* none once Close has returned.
C32_ReaderReleasesSegments ==
    /\ Len(used) <= 1
    /\ mode = "closed" => used = <<>>

(***************************************************************************)
(* Properties of TagSpec.                                                  *)
(***************************************************************************)
\* The tags file holds no byte.
TagsFileEmpty == ~tagsFile.doc /\ tagsFile.zeros = 0

\* The tags file is one document that gives, for every tag this writer has
\* written a record of, the position of the most recent one.
TagsFileCorrect ==
    /\ tagsFile.doc /\ tagsFile.zeros = 0
    /\ \A t \in Tags : TagWritten(t) =>
           t \in DOMAIN tagsFile.tags /\ tagsFile.tags[t] = tagPos[t]

\* C27: at every instant, the points between the steps of WriteTag and the
\* runs in which Truncate or Encode fails included, the tags file is empty
\* or correct.
C27_TagsFileAbsentOrCorrect == TagsFileEmpty \/ TagsFileCorrect

\* C29: WriteTag returns an error exactly when segment.WriteTag failed, a
\* failure of Truncate, Encode or Sync notwithstanding, and when Truncate
\* failed the cache map and the tags file are as the call found them.
C29_WriteTagFailsOnlyWithSegment ==
    (lastOp.op = "WriteTag" /\ lastOp.done) =>
        /\ (lastOp.ret # "nil") <=> lastOp.segErr
        /\ lastOp.truncErr =>
               w.cache = lastOp.cacheBefore /\ tagsFile = lastOp.fileBefore

\* A WriteTag whose Truncate failed has returned nil, an earlier WriteTag
\* having filled the cache.
C29_Witness ==
    /\ lastOp.op = "WriteTag" /\ lastOp.done /\ lastOp.truncErr
    /\ ~lastOp.segErr /\ lastOp.ret = "nil"
    /\ lastOp.fileBefore.doc /\ DOMAIN lastOp.cacheBefore # {}

====
